---- MODULE Spec2Model ----
(***************************************************************************)
(* Verification model of the gralloc4 buffer allocator/mapper:             *)
(*   - the buffer descriptor wire codec   (hidl_common/BufferDescriptor.h) *)
(*   - the allocation engine              (hidl_common/Allocator.cpp)      *)
(*   - the registered-handle registry     (hidl_common/Mapper.cpp,         *)
(*                                         4.x/GrallocMapper.cpp)          *)
(*   - the mapper operations              (hidl_common/Mapper.cpp,         *)
(*                                         4.x/GrallocMapper.cpp)          *)
(*   - the heap selection                 (allocator/mali_gralloc_ion.cpp) *)
(* Each part has its own specification (SpecCodec, SpecAlloc, SpecReg,     *)
(* SpecOps, SpecHeap) over its own variables; the variables of the other   *)
(* parts stay at their initial values.                                     *)
(***************************************************************************)
EXTENDS Integers, Sequences, FiniteSets, TLC

VARIABLES
    \* ---- descriptor codec ----
    info,         \* the BufferDescriptorInfo the client holds
    descriptor,   \* the encoded descriptor bytes travelling to the allocator
    tampered,     \* TRUE once the bytes are no longer what the encoder produced
    cuts,         \* number of client edits applied to the bytes
    createErr,    \* Error passed to createDescriptor's callback
    decoded,      \* result of grallocDecodeBufferDescriptor
    cpc,          \* codec position: "info", "wire", "decoded", "replied"
    allocReply,   \* what GrallocAllocator::allocate did with the descriptor
    \* ---- allocation engine (one allocate call) ----
    apc,            \* "idle", "loop", "callback", "release", "done", "crashed"
    count,          \* requested number of buffers
    reserved_size,  \* bufferDescriptor.reserved_size
    fd_count,       \* planes (fds) per buffer of this descriptor
    ai,             \* loop index i
    aerror,         \* local variable error
    stride,         \* local variable stride
    grallocBuffers, \* handles collected for the callback, in order
    derivedStrides, \* pixel_stride derived for each buffer allocated, in order
    handles,        \* buffer handles created and not yet freed
    openFds,        \* open file descriptors, as <<handle, index>>
    fdsOpened,      \* number of fds this call has opened so far
    freeCalls,      \* handles passed to mali_gralloc_buffer_free, in order
    cb,             \* what hidl_cb received, in order of invocation
    releaseIdx,     \* position of the final free loop
    next_idx,       \* std::atomic<uint16_t> next_idx
    total_allocated, \* uint64_t total_allocated
    \* ---- registered-handle registry and its callers ----
    mem,          \* the handle memory at each address
    registry,     \* gRegisteredHandles: the set of registered handle addresses
    refCount,     \* retain count kept for each handle address
    th,           \* per calling thread: position and locals of its operation
    badTeardown,  \* TRUE once a teardown step was taken out of order
    uaf,          \* TRUE once a handle was read after it had been deleted
    badVisit,     \* TRUE once for_each visited a handle that was not complete
    \* ---- mapper operations of one caller on one buffer reference ----
    buf,          \* the handle the caller's reference points to
    out,          \* what the last mapper operation did and returned
    lastAccess,   \* "locked" / "unlocked": the last of lock and unlock that
                  \* succeeded on the handle, "none" before the first
    \* ---- heap selection of one alloc_from_ion_heap call ----
    heapSel,      \* the call's usage, position, heap mask and heap name
    ionReq,       \* the size and ION flags of the request, and the fd returned
    \* ---- diagnostics ring of the allocator and its concurrent users ----
    ring,         \* next_idx, total_allocated and the slots of allocated_buffers
    ringMutex,    \* allocated_buffers_mutex: shared holders and exclusive holder
    appender,     \* per allocating thread: position in "Update dump details"
    dumper,       \* the caller of dump(): position, result
    \* ---- one mali_gralloc_ion_allocate call ----
    ionCall,      \* the call's arguments, locals, position and return value
    ionSys,       \* open fds, the close() and delete calls made, the handles
    \* ---- one mali_gralloc_ion_map call ----
    ionMap        \* the handle's usage, planes and bases, the call's locals

codecVars == <<info, descriptor, tampered, cuts, createErr, decoded, cpc,
               allocReply>>

allocVars == <<apc, count, reserved_size, fd_count, ai, aerror, stride,
               grallocBuffers, derivedStrides, handles, openFds, fdsOpened, freeCalls, cb,
               releaseIdx, next_idx, total_allocated>>

regVars == <<mem, registry, refCount, th, badTeardown, uaf, badVisit>>

opsVars == <<buf, out, lastAccess>>

heapVars == <<heapSel, ionReq>>

diagVars == <<ring, ringMutex, appender, dumper>>

ionVars == <<ionCall, ionSys, ionMap>>

vars == <<codecVars, allocVars, regVars, opsVars, heapVars, diagVars, ionVars>>

(***************************************************************************)
(* Fixed-width integers.  A uint32_t is a pair of 16-bit limbs <<lo, hi>>, *)
(* a uint64_t four limbs, least significant first, so that every width the *)
(* program uses is represented exactly.                                    *)
(***************************************************************************)
Zero32 == <<0, 0>>

Zero64 == <<0, 0, 0, 0>>

\* static_cast<uint64_t>(uint32_t): zero extension
ZeroExtend(v) == <<v[1], v[2], 0, 0>>

\* static_cast<uint64_t>(e) of an enum whose underlying type is int32_t:
\* the value is converted, so a set top bit fills the upper half
SignExtend(v) ==
    IF v[2] >= 32768 THEN <<v[1], v[2], 65535, 65535>> ELSE <<v[1], v[2], 0, 0>>

\* bytes of one 16-bit limb in little-endian memory order
LimbBytes(l) == <<l % 256, l \div 256>>

\* the object representation memcpy copies (little-endian targets)
Bytes32(v) == LimbBytes(v[1]) \o LimbBytes(v[2])

Bytes64(v) == LimbBytes(v[1]) \o LimbBytes(v[2]) \o LimbBytes(v[3]) \o LimbBytes(v[4])

\* vec[i] for a 0-based index; an access outside the vector yields 0 here and
\* is accounted for separately in the decoder's read extent
At(vec, i) == IF i + 1 \in 1..Len(vec) THEN vec[i + 1] ELSE 0

\* memcpy(vec->data() + pos, bytes, Len(bytes))
MemWrite(vec, pos, bytes) ==
    [i \in 1..Len(vec) |->
        IF i > pos /\ i <= pos + Len(bytes) THEN bytes[i - pos] ELSE vec[i]]

DESCRIPTOR_32BIT_FIELDS == 5

DESCRIPTOR_64BIT_FIELDS == 2

\* HIDL_MAPPER_VERSION_SCALED / 10 for mapper 4.0
VersionTag == <<40, 0>>

\* static_size for vecT = uint8_t
StaticSize == DESCRIPTOR_32BIT_FIELDS * 4 + DESCRIPTOR_64BIT_FIELDS * 8

\* strlen(str.c_str()): characters before the first NUL
RECURSIVE StrLenFrom(_, _)
StrLenFrom(s, i) ==
    IF i > Len(s) \/ s[i] = 0 THEN 0 ELSE 1 + StrLenFrom(s, i + 1)

strlen(s) == StrLenFrom(s, 1)

validateDescriptorInfo(d) ==
    /\ ~(d.width = Zero32 \/ d.height = Zero32 \/ d.layerCount = Zero32)
    /\ d.format # Zero32

push_descriptor_uint32(st, val) ==
    [vec |-> MemWrite(st.vec, st.pos, Bytes32(val)), pos |-> st.pos + 4]

push_descriptor_uint64(st, val) ==
    [vec |-> MemWrite(st.vec, st.pos, Bytes64(val)), pos |-> st.pos + 8]

\* strcpy(vec->data() + pos, str.c_str()); pos += strlen(str.c_str()) + 1
push_descriptor_string(st, str) ==
    [vec |-> MemWrite(st.vec, st.pos, SubSeq(str, 1, strlen(str)) \o <<0>>),
     pos |-> st.pos + strlen(str) + 1]

pop_descriptor_uint32(vec, pos) ==
    <<At(vec, pos) + 256 * At(vec, pos + 1),
      At(vec, pos + 2) + 256 * At(vec, pos + 3)>>

pop_descriptor_uint64(vec, pos) ==
    pop_descriptor_uint32(vec, pos) \o pop_descriptor_uint32(vec, pos + 4)

\* std::string str(charstr): the characters from pos up to the first NUL
pop_descriptor_string(vec, pos) ==
    LET tail == SubSeq(vec, pos + 1, Len(vec))
    IN  SubSeq(tail, 1, strlen(tail))

\* variant of the encoder that writes height before width
EncodeHeightFirst(d) ==
    LET dynamic_size == strlen(d.name) + 1
        s0 == [vec |-> [i \in 1..(dynamic_size + StaticSize) |-> 0], pos |-> 0]
        s1 == push_descriptor_uint32(s0, VersionTag)
        s2 == push_descriptor_uint32(s1, d.height)
        s3 == push_descriptor_uint32(s2, d.width)
        s4 == push_descriptor_uint32(s3, d.layerCount)
        s5 == push_descriptor_uint32(s4, d.format)
        s6 == push_descriptor_uint64(s5, d.usage)
        s7 == push_descriptor_uint64(s6, d.reservedSize)
        s8 == push_descriptor_string(s7, d.name)
    IN  s8.vec

grallocEncodeBufferDescriptor(d) ==
    LET dynamic_size == strlen(d.name) + 1
        s0 == [vec |-> [i \in 1..(dynamic_size + StaticSize) |-> 0], pos |-> 0]
        s1 == push_descriptor_uint32(s0, VersionTag)
        s2 == push_descriptor_uint32(s1, d.width)
        s3 == push_descriptor_uint32(s2, d.height)
        s4 == push_descriptor_uint32(s3, d.layerCount)
        s5 == push_descriptor_uint32(s4, d.format)
        s6 == push_descriptor_uint64(s5, d.usage)
        s7 == push_descriptor_uint64(s6, d.reservedSize)
        s8 == push_descriptor_string(s7, d.name)
    IN  s8.vec

NoDescriptor == [width |-> Zero32, height |-> Zero32, layer_count |-> Zero32,
                 hal_format |-> Zero64, producer_usage |-> Zero64,
                 consumer_usage |-> Zero64, reserved_size |-> Zero64,
                 name |-> <<>>]

\* variant of the size test that forgets the terminator byte
TooSmallWithoutTerminator(vec) == StaticSize > Len(vec)

\* the "Descriptor is too small" test
DescriptorTooSmall(vec) == StaticSize + 1 > Len(vec)

\* the "ending null character" test
MissingTerminator(vec) == At(vec, Len(vec) - 1) # 0

\* the version test
VersionMismatch(vec) == pop_descriptor_uint32(vec, 0) # VersionTag

\* Result of the decoder: ok, the reason of a rejection, the number of bytes
\* of fixed fields it read from the start of the vector, and the descriptor.
grallocDecodeBufferDescriptor(vec) ==
    IF DescriptorTooSmall(vec)
    THEN [ok |-> FALSE, why |-> "too_small", fixedRead |-> 0, desc |-> NoDescriptor]
    ELSE IF MissingTerminator(vec)
    THEN [ok |-> FALSE, why |-> "no_terminator", fixedRead |-> 0, desc |-> NoDescriptor]
    ELSE IF VersionMismatch(vec)
    THEN [ok |-> FALSE, why |-> "version", fixedRead |-> 4, desc |-> NoDescriptor]
    ELSE [ok |-> TRUE, why |-> "none", fixedRead |-> StaticSize,
          desc |-> [width |-> pop_descriptor_uint32(vec, 4),
                    height |-> pop_descriptor_uint32(vec, 8),
                    layer_count |-> pop_descriptor_uint32(vec, 12),
                    hal_format |-> ZeroExtend(pop_descriptor_uint32(vec, 16)),
                    producer_usage |-> pop_descriptor_uint64(vec, 20),
                    consumer_usage |-> pop_descriptor_uint64(vec, 20),
                    reserved_size |-> pop_descriptor_uint64(vec, 28),
                    name |-> pop_descriptor_string(vec, 36)]]

\* The descriptor allocate2 and isSupported build from the fields of the
\* request, without the byte vector.  The name is read as a C string.
decodeBufferDescriptorInfo(d) ==
    [width |-> d.width, height |-> d.height, layer_count |-> d.layerCount,
     hal_format |-> SignExtend(d.format),
     producer_usage |-> d.usage, consumer_usage |-> d.usage,
     reserved_size |-> d.reservedSize,
     name |-> SubSeq(d.name, 1, strlen(d.name))]

(***************************************************************************)
(* Inputs of the codec.                                                    *)
(***************************************************************************)
MaxEdits == 1

MaxCut == 8

Dim32 == {Zero32, <<1, 0>>, <<65535, 65535>>}

Layer32 == {Zero32, <<1, 0>>}

Format32 == {Zero32, <<34, 0>>, <<258, 32768>>}

Usage64 == {Zero64, <<51, 0, 256, 61440>>}

Reserved64 == {Zero64, <<1, 128, 0, 65535>>}

\* names as character codes; the last one has an embedded NUL
Names == {<<>>, <<97>>, <<97, 98>>, <<97, 0, 98>>}

PokeAt == {0, 3, 4, 16, 35, 36}

PokeTo == {0, 1, 40}

BufferDescriptorInfo ==
    [width : Dim32, height : {<<1, 0>>, <<0, 1>>}, layerCount : Layer32,
     format : Format32, usage : Usage64, reservedSize : Reserved64, name : Names]

\* the caller's AllocationResult as it is before the call
CallerResult == [stride |-> -1, buffers |-> << <<"caller", 0>> >>]

\* what common::allocate passed to hidl_cb; called: whether it was invoked
NoReport == [called |-> FALSE, error |-> "NONE", stride |-> 0, buffers |-> <<>>]

NoReply == [count |-> 0, status |-> "NOT_CALLED", backendCalled |-> FALSE,
            engineCalled |-> FALSE, report |-> NoReport, result |-> CallerResult]

NoDecode == [ok |-> FALSE, why |-> "not_run", fixedRead |-> 0, desc |-> NoDescriptor]

CodecInit ==
    /\ info \in BufferDescriptorInfo
    /\ descriptor = <<>>
    /\ tampered = FALSE
    /\ cuts = 0
    /\ createErr = "NOT_CALLED"
    /\ decoded = NoDecode
    /\ cpc = "info"
    /\ allocReply = NoReply

\* GrallocMapper::createDescriptor
createDescriptor ==
    /\ cpc = "info"
    /\ IF validateDescriptorInfo(info)
       THEN /\ descriptor' = grallocEncodeBufferDescriptor(info)
            /\ createErr' = "NONE"
       ELSE /\ descriptor' = <<>>
            /\ createErr' = "BAD_VALUE"
    /\ cpc' = "wire"
    /\ UNCHANGED <<info, tampered, cuts, decoded, allocReply>>

\* The descriptor is an opaque byte vector in the client's hands: the client
\* may hand the allocator a shortened one ...
ClientTruncate ==
    /\ cpc = "wire"
    /\ cuts < MaxEdits
    /\ \E k \in 1..MaxCut :
          /\ k <= Len(descriptor)
          /\ descriptor' = SubSeq(descriptor, 1, Len(descriptor) - k)
    /\ tampered' = TRUE
    /\ cuts' = cuts + 1
    /\ UNCHANGED <<info, createErr, decoded, cpc, allocReply>>

\* ... or one with a byte changed ...
ClientPoke ==
    /\ cpc = "wire"
    /\ cuts < MaxEdits
    /\ \E p \in PokeAt \cup {Len(descriptor) - 1}, b \in PokeTo :
          /\ p + 1 \in 1..Len(descriptor)
          /\ descriptor[p + 1] # b
          /\ descriptor' = [descriptor EXCEPT ![p + 1] = b]
    /\ tampered' = TRUE
    /\ cuts' = cuts + 1
    /\ UNCHANGED <<info, createErr, decoded, cpc, allocReply>>

\* ... or one with a byte appended.
ClientAppend ==
    /\ cpc = "wire"
    /\ cuts < MaxEdits
    /\ \E b \in PokeTo : descriptor' = Append(descriptor, b)
    /\ tampered' = TRUE
    /\ cuts' = cuts + 1
    /\ UNCHANGED <<info, createErr, decoded, cpc, allocReply>>

\* GrallocAllocator::allocate decoding the bytes it received
DecodeDescriptor ==
    /\ cpc = "wire"
    /\ decoded' = grallocDecodeBufferDescriptor(descriptor)
    /\ cpc' = "decoded"
    /\ UNCHANGED <<info, descriptor, tampered, cuts, createErr, allocReply>>

\* hnd->reserved_region_size > max_reserved_region_size on the 64-bit value
\* (8 MiB is 0x0080_0000: limb 2 = 128, limb 1 = 0)
ReservedAboveMax(v) ==
    v[4] # 0 \/ v[3] # 0 \/ v[2] > 128 \/ (v[2] = 128 /\ v[1] > 0)

\* The status GrallocAllocator::allocate returns for the Error its callback
\* received.
AllocationStatus(error) ==
    CASE error = "NONE" -> "OK"
      [] error = "BAD_DESCRIPTOR" -> "BAD_DESCRIPTOR"
      [] error = "NO_RESOURCES" -> "NO_RESOURCES"
      [] error = "UNSUPPORTED" -> "UNSUPPORTED"
      [] OTHER -> "STATUS_UNKNOWN_ERROR"

\* What common::allocate reports to its callback for a request of cnt
\* buffers (0 or 1).  Its loop hands the descriptor to
\* mali_gralloc_buffer_allocate without looking at its fields; allocResult is
\* that call's result, attrOk whether the attribute region could then be
\* allocated (if not, the process dies before the callback) and tmpStride
\* the pixel stride derived for the buffer.
EngineReport(cnt, allocResult, attrOk, tmpStride, desc) ==
    IF cnt = 0
    THEN [called |-> TRUE, error |-> "NONE", stride |-> 0, buffers |-> <<>>]
    ELSE IF allocResult # 0
    THEN [called |-> TRUE, error |-> "NO_RESOURCES", stride |-> 0, buffers |-> <<>>]
    ELSE IF ReservedAboveMax(desc.reserved_size)
    THEN [called |-> TRUE, error |-> "BAD_VALUE", stride |-> 0, buffers |-> <<>>]
    ELSE IF ~attrOk
    THEN NoReport
    ELSE [called |-> TRUE, error |-> "NONE", stride |-> tmpStride,
          buffers |-> [i \in 1..cnt |-> <<"buffer", i>>]]

\* A callback that fills in the result before it looks at the error.
hidl_cb_fills_first(result, report) ==
    [stride |-> report.stride,
     buffers |-> [i \in 1..Len(report.buffers) |-> <<"dup", report.buffers[i][2]>>]]

\* the lambda hidl_cb of GrallocAllocator::allocate: on an error only the
\* error is kept; otherwise the stride and a dup of every buffer go into
\* *result
hidl_cb(result, report) ==
    IF report.error # "NONE"
    THEN result
    ELSE [stride |-> report.stride,
          buffers |-> [i \in 1..Len(report.buffers) |-> <<"dup", report.buffers[i][2]>>]]

\* GrallocAllocator::allocate after decoding: a descriptor that did not
\* decode is refused; any other goes to common::allocate, and the error its
\* callback kept decides the status returned.
AllocateDecoded(cnt, allocResult, attrOk, tmpStride) ==
    /\ cpc = "decoded"
    /\ allocReply' =
          IF ~decoded.ok
          THEN [NoReply EXCEPT !.count = cnt, !.status = "BAD_DESCRIPTOR"]
          ELSE LET report == EngineReport(cnt, allocResult, attrOk, tmpStride,
                                          decoded.desc)
               IN  [count |-> cnt,
                    status |-> IF report.called
                               THEN AllocationStatus(report.error) ELSE "CRASHED",
                    backendCalled |-> cnt # 0,
                    engineCalled |-> TRUE,
                    report |-> report,
                    result |-> IF report.called
                               THEN hidl_cb(CallerResult, report)
                               ELSE CallerResult]
    /\ cpc' = "replied"
    /\ UNCHANGED <<info, descriptor, tampered, cuts, createErr, decoded>>

\* what each part leaves alone
CodecFrame == UNCHANGED <<allocVars, regVars, opsVars, heapVars, diagVars, ionVars>>

CodecNext ==
    \/ createDescriptor /\ CodecFrame
    \/ ClientTruncate /\ CodecFrame
    \/ ClientPoke /\ CodecFrame
    \/ ClientAppend /\ CodecFrame
    \/ DecodeDescriptor /\ CodecFrame
    \/ (\E cnt \in 0..1, allocResult \in {0, -1}, attrOk \in BOOLEAN,
           tmpStride \in {64, 128} :
           AllocateDecoded(cnt, allocResult, attrOk, tmpStride)) /\ CodecFrame


(***************************************************************************)
(* The allocation engine: arm::allocator::common::allocate.                *)
(***************************************************************************)
MaxCount == 3

MaxPlanes == 2

\* uint64_t max_reserved_region_size = 8ull * 1024 * 1024
max_reserved_region_size == 8 * 1024 * 1024

\* values of pixel_stride the format calculator may leave in the descriptor
Strides == {64, 128}

ReservedSizes == {0, max_reserved_region_size, max_reserved_region_size + 1}

AllocIdle ==
    /\ apc = "idle"
    /\ count = 0
    /\ reserved_size = 0
    /\ fd_count = 1
    /\ ai = 0
    /\ aerror = "NONE"
    /\ stride = 0
    /\ grallocBuffers = <<>>
    /\ derivedStrides = <<>>
    /\ handles = {}
    /\ openFds = {}
    /\ fdsOpened = 0
    /\ freeCalls = <<>>
    /\ cb = <<>>
    /\ releaseIdx = 1
    /\ next_idx = 0
    /\ total_allocated = 0

\* the fds a handle owns: its planes 0..fd_count-1 and, once allocated, the
\* attribute fd at index fd_count
FdsOf(h) == {f \in openFds : f[1] = h}

\* mali_gralloc_buffer_free: closes the fds of the handle and deletes it
mali_gralloc_buffer_free(h, open, live) ==
    [open |-> {f \in open : f[1] # h}, live |-> live \ {h}]

\* entry of allocate(bufferDescriptor, count, hidl_cb): locals initialised
AllocateCall ==
    /\ apc = "idle"
    /\ \E c \in 0..MaxCount, r \in ReservedSizes, p \in 1..MaxPlanes :
          /\ count' = c
          /\ reserved_size' = r
          /\ fd_count' = p
    /\ ai' = 0
    /\ aerror' = "NONE"
    /\ stride' = 0
    /\ grallocBuffers' = <<>>
    /\ derivedStrides' = <<>>
    /\ apc' = "loop"
    /\ UNCHANGED <<handles, openFds, fdsOpened, freeCalls, cb, releaseIdx,
                   next_idx, total_allocated>>

\* the check the loop body makes on reserved_region_size
ReservedTooLarge(r) == r > max_reserved_region_size

\* A buffer whose stride is the call's first, or equals the stride kept.
StrideAlwaysAccepted(kept, tmpStride) == TRUE

\* if (stride == 0) ... else if (stride != tmpStride): the buffer is kept
\* when no stride is recorded yet or its stride equals the recorded one
StrideAccepted(kept, tmpStride) == kept = 0 \/ kept = tmpStride

\* One iteration of the for loop.  The heap backend decides at which plane the
\* allocation fails (failPlane = fd_count: it does not), whether the attribute
\* region can be allocated, and the format calculator the pixel stride.
AllocateLoopBody(failPlane, attrOk, tmpStride) ==
    LET h == ai + 1
        planeFds == {<<h, k>> : k \in 0..(fd_count - 1)}
        attrFd == <<h, fd_count>>
    IN
    IF failPlane < fd_count
    THEN \* mali_gralloc_buffer_allocate failed: the backend closed the planes
         \* it had opened for this buffer
         /\ fdsOpened' = fdsOpened + failPlane
         /\ aerror' = "NO_RESOURCES"
         /\ apc' = "callback"
         /\ UNCHANGED <<ai, stride, grallocBuffers, derivedStrides, handles,
                        openFds, freeCalls, next_idx, total_allocated>>
    ELSE IF ReservedTooLarge(reserved_size)
    THEN \* break with tmpBuffer allocated and not recorded anywhere
         /\ fdsOpened' = fdsOpened + fd_count
         /\ handles' = handles \cup {h}
         /\ openFds' = openFds \cup planeFds
         /\ aerror' = "BAD_VALUE"
         /\ apc' = "callback"
         /\ UNCHANGED <<ai, stride, grallocBuffers, derivedStrides, freeCalls,
                        next_idx, total_allocated>>
    ELSE IF ~attrOk
    THEN \* mali_gralloc_ion_allocate_attr failed unchecked: mmap of fd -1
         \* fails and memset writes through MAP_FAILED
         /\ fdsOpened' = fdsOpened + fd_count
         /\ handles' = handles \cup {h}
         /\ openFds' = openFds \cup planeFds
         /\ apc' = "crashed"
         /\ UNCHANGED <<ai, aerror, stride, grallocBuffers, derivedStrides,
                        freeCalls, next_idx, total_allocated>>
    ELSE /\ fdsOpened' = fdsOpened + fd_count + 1
         /\ next_idx' = (next_idx + 1) % 65536
         /\ total_allocated' = total_allocated + 1
         /\ derivedStrides' = Append(derivedStrides, tmpStride)
         /\ IF StrideAccepted(stride, tmpStride)
            THEN /\ stride' = tmpStride
                 /\ handles' = handles \cup {h}
                 /\ openFds' = openFds \cup planeFds \cup {attrFd}
                 /\ grallocBuffers' = Append(grallocBuffers, h)
                 /\ ai' = ai + 1
                 /\ apc' = IF ai + 1 < count THEN "loop" ELSE "callback"
                 /\ UNCHANGED <<aerror, freeCalls>>
            ELSE \* stride mismatch: tmpBuffer is freed at once
                 /\ freeCalls' = Append(freeCalls, h)
                 /\ handles' = mali_gralloc_buffer_free(h, openFds, handles).live
                 /\ openFds' = mali_gralloc_buffer_free(h, openFds, handles).open
                 /\ stride' = 0
                 /\ aerror' = "UNSUPPORTED"
                 /\ apc' = "callback"
                 /\ UNCHANGED <<ai, grallocBuffers>>

AllocateLoop ==
    /\ apc = "loop"
    /\ IF ai < count
       THEN \E failPlane \in 0..fd_count, attrOk \in BOOLEAN, tmpStride \in Strides :
               AllocateLoopBody(failPlane, attrOk, tmpStride)
       ELSE /\ apc' = "callback"
            /\ UNCHANGED <<ai, aerror, stride, grallocBuffers, derivedStrides,
                           handles, openFds, fdsOpened, freeCalls, next_idx,
                           total_allocated>>
    /\ UNCHANGED <<count, reserved_size, fd_count, cb, releaseIdx>>

\* hidl_cb(error, stride, hidlBuffers)
AllocateCallback ==
    /\ apc = "callback"
    /\ cb' = Append(cb, [error |-> aerror, stride |-> stride,
                         buffers |-> IF aerror = "NONE" THEN grallocBuffers ELSE <<>>,
                         live |-> handles])
    /\ releaseIdx' = 1
    /\ apc' = "release"
    /\ UNCHANGED <<count, reserved_size, fd_count, ai, aerror, stride,
                   grallocBuffers, derivedStrides, handles, openFds, fdsOpened,
                   freeCalls, next_idx, total_allocated>>

\* the final loop: mali_gralloc_buffer_free of every collected buffer
AllocateRelease ==
    /\ apc = "release"
    /\ IF releaseIdx <= Len(grallocBuffers)
       THEN LET h == grallocBuffers[releaseIdx]
                r == mali_gralloc_buffer_free(h, openFds, handles)
            IN  /\ freeCalls' = Append(freeCalls, h)
                /\ handles' = r.live
                /\ openFds' = r.open
                /\ releaseIdx' = releaseIdx + 1
                /\ apc' = "release"
       ELSE /\ apc' = "done"
            /\ UNCHANGED <<freeCalls, handles, openFds, releaseIdx>>
    /\ UNCHANGED <<count, reserved_size, fd_count, ai, aerror, stride,
                   grallocBuffers, derivedStrides, fdsOpened, cb, next_idx,
                   total_allocated>>

CodecIdle ==
    /\ info = [width |-> <<1, 0>>, height |-> <<1, 0>>, layerCount |-> <<1, 0>>,
               format |-> <<34, 0>>, usage |-> Zero64, reservedSize |-> Zero64,
               name |-> <<>>]
    /\ descriptor = <<>>
    /\ tampered = FALSE
    /\ cuts = 0
    /\ createErr = "NOT_CALLED"
    /\ decoded = NoDecode
    /\ cpc = "info"
    /\ allocReply = NoReply

AllocFrame == UNCHANGED <<codecVars, regVars, opsVars, heapVars, diagVars, ionVars>>

AllocNext ==
    \/ AllocateCall /\ AllocFrame
    \/ AllocateLoop /\ AllocFrame
    \/ AllocateCallback /\ AllocFrame
    \/ AllocateRelease /\ AllocFrame


(***************************************************************************)
(* The mapper operations of one caller on one buffer reference             *)
(* (4.x/GrallocMapper.cpp, hidl_common/Mapper.cpp).  Each operation runs   *)
(* to completion; the caller may import, free or damage the handle between *)
(* operations and may pass a null reference instead of the handle.         *)
(***************************************************************************)
\* a handle as the allocator hands it out: not imported, not locked
RawBuffer(valid, reserved) ==
    [mem |-> "live", valid |-> valid, registered |-> FALSE, imported |-> FALSE,
     cpu_read |-> FALSE, cpu_write |-> FALSE, reserved |-> reserved]

NoOut == [op |-> "none", arg |-> "null", pre |-> RawBuffer(TRUE, FALSE),
          err |-> "NONE", cbCalls |-> 0, fence |-> "none", usage |-> {},
          type |-> "none", dupd |-> FALSE, waited |-> FALSE, fenceClosed |-> FALSE,
          fenceCloses |-> <<>>, lockResult |-> "none",
          lockReached |-> FALSE, unlockReached |-> FALSE, synced |-> FALSE,
          regionRead |-> FALSE, handler |-> FALSE, dump |-> <<>>, failing |-> {},
          staleRead |-> FALSE]

OpsIdle ==
    /\ buf = RawBuffer(TRUE, TRUE)
    /\ out = NoOut
    /\ lastAccess = "none"

OpsInit ==
    /\ buf \in {RawBuffer(v, r) : v \in BOOLEAN, r \in BOOLEAN}
    /\ out = NoOut
    /\ lastAccess = "none"

\* the references a caller can pass: a null pointer or the handle's address
Args == {"null", "h"}

\* what a read of deleted handle memory may yield
Junk == [valid : BOOLEAN, flag : BOOLEAN]

\* the fields an operation reads through the pointer
Seen(b, j) ==
    IF b.mem = "live"
    THEN b
    ELSE [b EXCEPT !.valid = j.valid, !.cpu_read = j.flag, !.cpu_write = j.flag,
                   !.reserved = j.flag]

\* an operation dereferenced the pointer after the handle was deleted
Stale(b, arg) == arg = "h" /\ b.mem # "live"

\* common::getBuffer: gRegisteredHandles->get(buffer)
getBuffer(b, arg) == IF arg = "h" /\ b.registered THEN "h" ELSE "null"

\* private_handle_t::validate(handle) >= 0
private_handle_validate(b, arg, j) == arg = "h" /\ Seen(b, j).valid

\* mali_gralloc_reference_validate(handle) >= 0
reference_validate(b, arg) == arg = "h" /\ b.mem = "live" /\ b.imported

\* importBuffer succeeded on the handle
BufImport ==
    /\ buf.mem = "live" /\ buf.valid /\ ~buf.registered
    /\ buf' = [buf EXCEPT !.registered = TRUE, !.imported = TRUE]
    /\ out' = NoOut
    /\ lastAccess' = "none"

\* freeBuffer succeeded on the handle: unregistered, released, deleted
BufFree ==
    /\ buf.mem = "live" /\ buf.valid /\ buf.registered
    /\ buf' = [buf EXCEPT !.mem = "deleted", !.registered = FALSE, !.imported = FALSE,
                          !.cpu_read = FALSE, !.cpu_write = FALSE]
    /\ out' = NoOut
    /\ lastAccess' = "none"

\* the caller overwrote the handle's header
BufCorrupt ==
    /\ buf.mem = "live" /\ buf.valid
    /\ buf' = [buf EXCEPT !.valid = FALSE]
    /\ out' = NoOut
    /\ UNCHANGED lastAccess

\* the CPU usage a lock can ask for, as the masks it sets
CpuUsages == SUBSET {"read", "write"}

\* the acquire fence handle of a lock: no fd, one fd, more than one fd
Fences == {"none", "one", "many"}

\* Error values mali_gralloc_lock / mali_gralloc_unlock map to
GrallocResults == {"NONE", "BAD_VALUE", "UNSUPPORTED"}

\* mali_gralloc_lock on success: the handle is marked locked for the usage
mali_gralloc_lock(b, usage) ==
    [b EXCEPT !.cpu_read = @ \/ ("read" \in usage),
              !.cpu_write = @ \/ ("write" \in usage)]

\* mali_gralloc_unlock on success: the access flags are cleared
mali_gralloc_unlock(b) == [b EXCEPT !.cpu_read = FALSE, !.cpu_write = FALSE]

\* what lockBuffer did: the error, whether the fence was dup'ed and waited
\* on, the fds it passed to close() in order ("dup": the duplicate, "fence":
\* the caller's fd), whether mali_gralloc_lock was called, and the handle
\* afterwards
LockOutcome(err, dupd, waited, closes, reached, b) ==
    [err |-> err, dupd |-> dupd, waited |-> waited, fenceClosed |-> closes # <<>>,
     fenceCloses |-> closes, lockReached |-> reached, buf |-> b]

\* if (fenceFd >= 0) close(fenceFd): fenceFd holds the duplicate by then
CloseFence(given) == IF given THEN <<"dup">> ELSE <<>>

\* A lockBuffer that leaves the duplicate open when the buffer is already
\* locked for writing.
lockBufferKeepsFenceOnRelock(b, arg, usage, given, dupOk, lockRes, j) ==
    IF given /\ ~dupOk
    THEN LockOutcome("NO_RESOURCES", FALSE, FALSE, <<>>, FALSE, b)
    ELSE IF ~private_handle_validate(b, arg, j)
    THEN LockOutcome("BAD_BUFFER", given, FALSE, CloseFence(given), FALSE, b)
    ELSE IF ~reference_validate(b, arg)
    THEN LockOutcome("BAD_VALUE", given, FALSE, CloseFence(given), FALSE, b)
    ELSE LET already == b.cpu_write /\ ("write" \in usage)
         IN  LockOutcome(lockRes, given, given /\ ~already,
                         IF already THEN <<>> ELSE CloseFence(given), TRUE,
                         IF lockRes = "NONE" THEN mali_gralloc_lock(b, usage) ELSE b)

\* A lockBuffer that turns away a write lock on a buffer already locked for
\* writing.
lockBufferRejectsRelock(b, arg, usage, given, dupOk, lockRes, j) ==
    IF given /\ ~dupOk
    THEN LockOutcome("NO_RESOURCES", FALSE, FALSE, <<>>, FALSE, b)
    ELSE IF ~private_handle_validate(b, arg, j)
    THEN LockOutcome("BAD_BUFFER", given, FALSE, CloseFence(given), FALSE, b)
    ELSE IF ~reference_validate(b, arg)
    THEN LockOutcome("BAD_VALUE", given, FALSE, CloseFence(given), FALSE, b)
    ELSE IF b.cpu_write /\ ("write" \in usage)
    THEN LockOutcome("BAD_VALUE", given, FALSE, CloseFence(given), FALSE, b)
    ELSE LockOutcome(lockRes, given, given, CloseFence(given), TRUE,
                     IF lockRes = "NONE" THEN mali_gralloc_lock(b, usage) ELSE b)

\* lockBuffer(bufferHandle, cpuUsage, accessRegion, fenceFd, outData);
\* given: fenceFd >= 0
lockBuffer(b, arg, usage, given, dupOk, lockRes, j) ==
    IF given /\ ~dupOk
    THEN LockOutcome("NO_RESOURCES", FALSE, FALSE, <<>>, FALSE, b)
    ELSE IF ~private_handle_validate(b, arg, j)
    THEN LockOutcome("BAD_BUFFER", given, FALSE, CloseFence(given), FALSE, b)
    ELSE IF ~reference_validate(b, arg)
    THEN LockOutcome("BAD_VALUE", given, FALSE, CloseFence(given), FALSE, b)
    ELSE LET already == b.cpu_write /\ ("write" \in usage)
         IN  LockOutcome(lockRes, given, given /\ ~already, CloseFence(given), TRUE,
                         IF lockRes = "NONE" THEN mali_gralloc_lock(b, usage) ELSE b)

\* GrallocMapper::lock and common::lock
lock(arg, usage, fence, dupOk, lockRes, j) ==
    LET r == IF fence = "many"
             THEN LockOutcome("BAD_VALUE", FALSE, FALSE, <<>>, FALSE, buf)
             ELSE IF arg = "null" \/ ~private_handle_validate(buf, arg, j)
             THEN LockOutcome("BAD_BUFFER", FALSE, FALSE, <<>>, FALSE, buf)
             ELSE lockBuffer(buf, arg, usage, fence = "one", dupOk, lockRes, j)
    IN  /\ buf' = r.buf
        /\ out' = [NoOut EXCEPT !.op = "lock", !.arg = arg, !.pre = buf,
                                !.err = r.err, !.cbCalls = 1, !.fence = fence,
                                !.usage = usage, !.dupd = r.dupd,
                                !.waited = r.waited, !.fenceClosed = r.fenceClosed,
                                !.fenceCloses = r.fenceCloses,
                                !.lockResult = IF r.lockReached THEN lockRes ELSE "none",
                                !.lockReached = r.lockReached,
                                !.staleRead = (fence # "many" /\ Stale(buf, arg))]
        /\ lastAccess' = IF r.lockReached /\ r.err = "NONE"
                         THEN "locked" ELSE lastAccess

\* variant of unlockBuffer that returns NONE whatever mali_gralloc_unlock
\* returned
unlockBufferDropsError(b, arg, unlockRes, j) ==
    IF ~private_handle_validate(b, arg, j)
    THEN [err |-> "BAD_BUFFER", reached |-> FALSE, buf |-> b]
    ELSE IF unlockRes = "NONE"
    THEN [err |-> "NONE", reached |-> TRUE, buf |-> mali_gralloc_unlock(b)]
    ELSE [err |-> "NONE", reached |-> TRUE, buf |-> b]

\* unlockBuffer(bufferHandle, outFenceFd)
unlockBuffer(b, arg, unlockRes, j) ==
    IF ~private_handle_validate(b, arg, j)
    THEN [err |-> "BAD_BUFFER", reached |-> FALSE, buf |-> b]
    ELSE IF unlockRes = "NONE"
    THEN [err |-> "NONE", reached |-> TRUE, buf |-> mali_gralloc_unlock(b)]
    ELSE [err |-> "BAD_BUFFER", reached |-> TRUE, buf |-> b]

\* GrallocMapper::unlock and common::unlock.  A null lookup result is
\* reported to the callback and then handed on to common::unlock, whose
\* error is reported to the callback again.
unlock(arg, unlockRes, j) ==
    LET handle == getBuffer(buf, arg)
        r == IF handle = "null"
             THEN [err |-> "BAD_BUFFER", reached |-> FALSE, buf |-> buf]
             ELSE unlockBuffer(buf, handle, unlockRes, j)
    IN  /\ buf' = r.buf
        /\ out' = [NoOut EXCEPT !.op = "unlock", !.arg = arg, !.pre = buf,
                                !.err = r.err,
                                !.cbCalls = IF handle = "null" THEN 2 ELSE 1,
                                !.unlockReached = r.reached]
        /\ lastAccess' = IF r.err = "NONE" THEN "unlocked" ELSE lastAccess

\* the test both cache operations make: no access flag is set
Unlocked(b) == ~b.cpu_write /\ ~b.cpu_read

\* variant of the cache operations' body without the access-flag test
CacheOpNoFlagTest(b, handle, j) ==
    IF ~private_handle_validate(b, handle, j)
    THEN [err |-> "BAD_BUFFER", synced |-> FALSE]
    ELSE [err |-> "NONE", synced |-> TRUE]

\* the body flushLockedBuffer and rereadLockedBuffer share: validate, test
\* the access flags, sync
CacheOp(b, handle, j) ==
    IF ~private_handle_validate(b, handle, j)
    THEN [err |-> "BAD_BUFFER", synced |-> FALSE]
    ELSE IF Unlocked(Seen(b, j))
    THEN [err |-> "BAD_BUFFER", synced |-> FALSE]
    ELSE [err |-> "NONE", synced |-> TRUE]

\* GrallocMapper::flushLockedBuffer: the reference is used as the handle
flushLockedBuffer(arg, j) ==
    LET r == CacheOp(buf, arg, j)
    IN  /\ out' = [NoOut EXCEPT !.op = "flushLockedBuffer", !.arg = arg, !.pre = buf,
                                !.err = r.err, !.cbCalls = 1, !.synced = r.synced,
                                !.staleRead = Stale(buf, arg)]
        /\ UNCHANGED buf

\* GrallocMapper::rereadLockedBuffer: the reference is looked up first
rereadLockedBuffer(arg, j) ==
    LET r == CacheOp(buf, getBuffer(buf, arg), j)
    IN  /\ out' = [NoOut EXCEPT !.op = "rereadLockedBuffer", !.arg = arg, !.pre = buf,
                                !.err = r.err, !.synced = r.synced]
        /\ UNCHANGED buf

\* GrallocMapper::getReservedRegion and common::getReservedRegion: the
\* reference is used as the handle; its reserved_region_size is read, then
\* mali_gralloc_reference_get_metadata_addr has a value for an imported handle
getReservedRegion(arg, j) ==
    LET err == IF arg = "null" THEN "BAD_BUFFER"
               ELSE IF ~Seen(buf, j).reserved THEN "BAD_BUFFER"
               ELSE IF ~reference_validate(buf, arg) THEN "BAD_BUFFER"
               ELSE "NONE"
    IN  /\ out' = [NoOut EXCEPT !.op = "getReservedRegion", !.arg = arg, !.pre = buf,
                                !.err = err, !.cbCalls = 1,
                                !.regionRead = (err = "NONE"),
                                !.staleRead = Stale(buf, arg)]
        /\ UNCHANGED buf

\* the metadata types a caller can name: standard ones, the vendor one, and
\* one the implementation does not know
MetadataTypes == {"WIDTH", "DATASPACE", "CROP", "ARM_PLANE_FDS", "UNKNOWN"}

\* Error values get_metadata / set_metadata return
MetadataResults == {"NONE", "UNSUPPORTED", "BAD_VALUE"}

\* variant of the metadata entry check that trusts the reference as given
MetadataOpTrustsReference(b, arg, metaRes) ==
    IF arg = "null"
    THEN [err |-> "BAD_BUFFER", handler |-> FALSE]
    ELSE IF ~reference_validate(b, arg)
    THEN [err |-> "BAD_VALUE", handler |-> FALSE]
    ELSE [err |-> metaRes, handler |-> TRUE]

\* the body GrallocMapper::get/set and common::get/set share: look the
\* reference up, reject null, validate the reference, call the handler
MetadataOp(b, arg, metaRes) ==
    LET handle == getBuffer(b, arg)
    IN  IF handle = "null"
        THEN [err |-> "BAD_BUFFER", handler |-> FALSE]
        ELSE IF ~reference_validate(b, handle)
        THEN [err |-> "BAD_VALUE", handler |-> FALSE]
        ELSE [err |-> metaRes, handler |-> TRUE]

\* GrallocMapper::get
get(arg, type, metaRes) ==
    LET r == MetadataOp(buf, arg, metaRes)
    IN  /\ out' = [NoOut EXCEPT !.op = "get", !.arg = arg, !.pre = buf, !.type = type,
                                !.err = r.err, !.cbCalls = 1, !.handler = r.handler]
        /\ UNCHANGED buf

\* GrallocMapper::set
set(arg, type, metaRes) ==
    LET r == MetadataOp(buf, arg, metaRes)
    IN  /\ out' = [NoOut EXCEPT !.op = "set", !.arg = arg, !.pre = buf, !.type = type,
                                !.err = r.err, !.handler = r.handler]
        /\ UNCHANGED buf

\* the fixed table of dumpBufferHelper, in its order
standardMetadataTypes ==
    << "BUFFER_ID", "NAME", "WIDTH", "HEIGHT", "LAYER_COUNT",
       "PIXEL_FORMAT_REQUESTED", "PIXEL_FORMAT_FOURCC", "PIXEL_FORMAT_MODIFIER",
       "USAGE", "ALLOCATION_SIZE", "PROTECTED_CONTENT", "COMPRESSION",
       "INTERLACED", "CHROMA_SITING", "PLANE_LAYOUTS", "DATASPACE", "BLEND_MODE",
       "SMPTE2086", "CTA861_3", "SMPTE2094_40", "CROP" >>

\* the sets of attributes whose get_metadata fails during one dump
FailingSets ==
    {{}} \cup {{standardMetadataTypes[i]} : i \in 1..Len(standardMetadataTypes)}
         \cup {{"NAME", "CROP"}}

RECURSIVE DumpKeepsCollected(_, _, _)
\* variant of the helper's loop that returns what it collected so far
DumpKeepsCollected(i, failing, metadataDumps) ==
    IF i > Len(standardMetadataTypes)
    THEN metadataDumps
    ELSE IF standardMetadataTypes[i] \notin failing
    THEN DumpKeepsCollected(i + 1, failing, Append(metadataDumps, standardMetadataTypes[i]))
    ELSE metadataDumps

RECURSIVE DumpLoop(_, _, _)
\* dumpBufferHelper's loop from table position i on
DumpLoop(i, failing, metadataDumps) ==
    IF i > Len(standardMetadataTypes)
    THEN metadataDumps
    ELSE IF standardMetadataTypes[i] \notin failing
    THEN DumpLoop(i + 1, failing, Append(metadataDumps, standardMetadataTypes[i]))
    ELSE <<>>

\* dumpBufferHelper(handle)
dumpBufferHelper(failing) == DumpLoop(1, failing, <<>>)

\* GrallocMapper::dumpBuffer and common::dumpBuffer
dumpBuffer(arg, failing) ==
    LET handle == getBuffer(buf, arg)
    IN  /\ out' = [NoOut EXCEPT !.op = "dumpBuffer", !.arg = arg, !.pre = buf,
                                !.cbCalls = 1, !.failing = failing,
                                !.err = IF handle = "null" THEN "BAD_BUFFER" ELSE "NONE",
                                !.handler = (handle # "null"),
                                !.dump = IF handle = "null" THEN <<>>
                                         ELSE dumpBufferHelper(failing)]
        /\ UNCHANGED buf

\* the descriptions isSupported is asked about
SupportInfos ==
    [width : Dim32, height : {<<1, 0>>, Zero32}, layerCount : Layer32,
     format : Format32, usage : {Zero64}, reservedSize : {Zero64}, name : {<<>>}]

\* GrallocMapper::isSupported: an invalid description is reported to the
\* callback with BAD_VALUE and the function goes on to report NONE with the
\* answer of common::isSupported
isSupported(description) ==
    /\ out' = [NoOut EXCEPT !.op = "isSupported", !.pre = buf, !.err = "NONE",
                            !.cbCalls = IF validateDescriptorInfo(description)
                                        THEN 1 ELSE 2]
    /\ UNCHANGED <<buf, lastAccess>>

OpsFrame == UNCHANGED <<codecVars, allocVars, regVars, heapVars, diagVars, ionVars>>

OpsNext ==
    \/ BufImport /\ OpsFrame
    \/ BufFree /\ OpsFrame
    \/ BufCorrupt /\ OpsFrame
    \/ (\E arg \in Args, usage \in CpuUsages, fence \in Fences, dupOk \in BOOLEAN,
           lockRes \in GrallocResults, j \in Junk :
           lock(arg, usage, fence, dupOk, lockRes, j)) /\ OpsFrame
    \/ (\E arg \in Args, unlockRes \in GrallocResults, j \in Junk :
           unlock(arg, unlockRes, j)) /\ OpsFrame
    \/ (\E arg \in Args, j \in Junk : flushLockedBuffer(arg, j)) /\ OpsFrame /\ UNCHANGED lastAccess
    \/ (\E arg \in Args, j \in Junk : rereadLockedBuffer(arg, j)) /\ OpsFrame /\ UNCHANGED lastAccess
    \/ (\E arg \in Args, j \in Junk : getReservedRegion(arg, j)) /\ OpsFrame /\ UNCHANGED lastAccess
    \/ (\E arg \in Args, type \in MetadataTypes, metaRes \in MetadataResults :
           get(arg, type, metaRes)) /\ OpsFrame /\ UNCHANGED lastAccess
    \/ (\E arg \in Args, type \in MetadataTypes, metaRes \in MetadataResults :
           set(arg, type, metaRes)) /\ OpsFrame /\ UNCHANGED lastAccess
    \/ (\E arg \in Args, failing \in FailingSets : dumpBuffer(arg, failing)) /\ OpsFrame
                                                        /\ UNCHANGED lastAccess
    \/ (\E description \in SupportInfos : isSupported(description)) /\ OpsFrame

(***************************************************************************)
(* The registry of imported handles and the mapper operations that use it. *)
(* Two callers run concurrently; every step below is one access to shared  *)
(* state (a registry call under its mutex, a reference call, or an access  *)
(* to the handle's memory).                                                *)
(***************************************************************************)
NumAddrs == 2

\* the concurrent callers
Threads == {"t1", "t2"}

\* addresses native_handle_clone can return
Addrs == 1..NumAddrs

\* raw handles a client can present: a well-formed one and one whose
\* signature does not validate
RawHandles == {"valid", "corrupt"}

\* the memory at an address that holds no handle
NoHandle == [state |-> "free", valid |-> FALSE, releases |-> 0, closes |-> 0]

IdleThread == [pc |-> "idle", op |-> "none", a |-> 0, stale |-> FALSE, res |-> "NONE",
               found |-> FALSE, removed |-> FALSE, added |-> FALSE,
               retained |-> 0, retainOk |-> FALSE, tore |-> 0]

RegIdle ==
    /\ mem = [a \in Addrs |-> NoHandle]
    /\ registry = {}
    /\ refCount = [a \in Addrs |-> 0]
    /\ th = [t \in Threads |-> IdleThread]
    /\ badTeardown = FALSE
    /\ uaf = FALSE
    /\ badVisit = FALSE

FreeAddrs == {a \in Addrs : mem[a].state = "free"}

\* RegisteredHandlePool::get
pool_get(reg, a) == IF a \in reg THEN a ELSE 0

\* RegisteredHandlePool::add: false when the address is already present
pool_add(reg, a) == [ok |-> a \notin reg, reg |-> reg \cup {a}]

\* RegisteredHandlePool::remove: the handle, or null when it is absent
pool_remove(reg, a) == [handle |-> IF a \in reg THEN a ELSE 0, reg |-> reg \ {a}]

\* private_handle_t::validate on the handle stored at address a
validate(a) == mem[a].state = "live" /\ mem[a].valid

\* mali_gralloc_reference_validate: the address holds a retained reference
mali_gralloc_reference_validate(rc, a) == rc[a] >= 1

\* mali_gralloc_reference_retain: one more reference, unless mapping fails
mali_gralloc_reference_retain(rc, a, mapOk) ==
    [ok |-> mapOk, rc |-> IF mapOk THEN [rc EXCEPT ![a] = @ + 1] ELSE rc]

\* mali_gralloc_reference_release: one reference less, an error when none is held
mali_gralloc_reference_release(rc, a) ==
    [ok |-> rc[a] >= 1, rc |-> IF rc[a] >= 1 THEN [rc EXCEPT ![a] = @ - 1] ELSE rc]

\* variant of registerBuffer that reports success without retaining
RegisterWithoutRetain(rc, a, mapOk) ==
    IF ~validate(a)
    THEN [err |-> "BAD_BUFFER", rc |-> rc]
    ELSE [err |-> IF mapOk THEN "NONE" ELSE "NO_RESOURCES", rc |-> rc]

\* registerBuffer
registerBuffer(rc, a, mapOk) ==
    IF ~validate(a)
    THEN [err |-> "BAD_BUFFER", rc |-> rc]
    ELSE LET r == mali_gralloc_reference_retain(rc, a, mapOk)
         IN  [err |-> IF r.ok THEN "NONE" ELSE "NO_RESOURCES", rc |-> r.rc]

\* unregisterBuffer
unregisterBuffer(rc, a) ==
    IF ~validate(a)
    THEN [err |-> "BAD_BUFFER", rc |-> rc]
    ELSE LET r == mali_gralloc_reference_release(rc, a)
         IN  [err |-> IF r.ok THEN "NONE" ELSE "BAD_BUFFER", rc |-> r.rc]

\* variant of the clone step that enters the clone in the registry at once,
\* before its reference is retained
ImportCloneAddsFirst(t, raw) ==
    /\ th[t].pc = "idle"
    /\ \E a \in FreeAddrs :
          /\ mem' = [mem EXCEPT ![a] =
                        [NoHandle EXCEPT !.state = "live", !.valid = (raw = "valid")]]
          /\ registry' = registry \cup {a}
          /\ th' = [th EXCEPT ![t] =
                        [IdleThread EXCEPT !.pc = "imp_register",
                                           !.op = IF raw = "valid" THEN "import"
                                                  ELSE "import_corrupt",
                                           !.a = a]]
    /\ UNCHANGED <<refCount, badTeardown, uaf>>

\* importBuffer, first statement: native_handle_clone(inBuffer)
ImportClone(t, raw) ==
    /\ th[t].pc = "idle"
    /\ \E a \in FreeAddrs :
          /\ mem' = [mem EXCEPT ![a] =
                        [NoHandle EXCEPT !.state = "live", !.valid = (raw = "valid")]]
          /\ th' = [th EXCEPT ![t] =
                        [IdleThread EXCEPT !.pc = "imp_register",
                                           !.op = IF raw = "valid" THEN "import"
                                                  ELSE "import_corrupt",
                                           !.a = a]]
    /\ UNCHANGED <<registry, refCount, badTeardown, uaf>>

\* importBuffer: registerBuffer(*outBuffer) and the early return on error
ImportRegister(t) ==
    /\ th[t].pc = "imp_register"
    /\ \E mapOk \in BOOLEAN :
          LET r == registerBuffer(refCount, th[t].a, mapOk)
          IN  /\ refCount' = r.rc
              /\ th' = [th EXCEPT ![t] =
                           [@ EXCEPT !.pc = IF r.err = "NONE" THEN "imp_add" ELSE "ret",
                                     !.res = r.err,
                                     !.retainOk = (r.err = "NONE"),
                                     !.retained = IF r.err = "NONE" THEN 1 ELSE 0]]
    /\ UNCHANGED <<mem, registry, badTeardown, uaf>>

\* variant of the add step that treats any registered clone as a duplicate
ImportAddKeyedByRaw(t) ==
    /\ th[t].pc = "imp_add"
    /\ LET u == unregisterBuffer(refCount, th[t].a)
       IN  IF registry = {}
           THEN /\ registry' = registry \cup {th[t].a}
                /\ th' = [th EXCEPT ![t] = [@ EXCEPT !.pc = "ret", !.res = "NONE",
                                                     !.added = TRUE]]
                /\ UNCHANGED refCount
           ELSE /\ refCount' = u.rc
                /\ th' = [th EXCEPT ![t] =
                             [@ EXCEPT !.pc = "ret", !.res = "NO_RESOURCES",
                                       !.retained = IF u.err = "NONE" THEN 0 ELSE 1]]
                /\ UNCHANGED registry
    /\ UNCHANGED <<mem, badTeardown, uaf>>

\* importBuffer: gRegisteredHandles->add(*outBuffer) and what follows
ImportAdd(t) ==
    /\ th[t].pc = "imp_add"
    /\ LET r == pool_add(registry, th[t].a)
           u == unregisterBuffer(refCount, th[t].a)
       IN  IF r.ok
           THEN /\ registry' = r.reg
                /\ th' = [th EXCEPT ![t] = [@ EXCEPT !.pc = "ret", !.res = "NONE",
                                                     !.added = TRUE]]
                /\ UNCHANGED refCount
           ELSE /\ refCount' = u.rc
                /\ th' = [th EXCEPT ![t] =
                             [@ EXCEPT !.pc = "ret", !.res = "NO_RESOURCES",
                                       !.retained = IF u.err = "NONE" THEN 0 ELSE 1]]
                /\ UNCHANGED registry
    /\ UNCHANGED <<mem, badTeardown, uaf>>

\* variant of the lookup step that reports a missing handle as a success
FreeLookupAbsentIsOk(t, a) ==
    /\ th[t].pc = "idle"
    /\ LET handle == pool_get(registry, a)
       IN  th' = [th EXCEPT ![t] =
                     [IdleThread EXCEPT !.op = "free", !.a = a,
                                        !.found = (handle # 0),
                                        !.pc = IF handle = 0 THEN "ret" ELSE "free_remove",
                                        !.res = "NONE"]]
    /\ UNCHANGED <<mem, registry, refCount, badTeardown, uaf>>

\* GrallocMapper::freeBuffer: common::getBuffer(buffer) and the null check
FreeLookup(t, a) ==
    /\ th[t].pc = "idle"
    /\ LET handle == pool_get(registry, a)
       IN  th' = [th EXCEPT ![t] =
                     [IdleThread EXCEPT !.op = "free", !.a = a,
                                        !.found = (handle # 0),
                                        !.pc = IF handle = 0 THEN "ret" ELSE "free_remove",
                                        !.res = IF handle = 0 THEN "BAD_BUFFER" ELSE "NONE"]]
    /\ UNCHANGED <<mem, registry, refCount, badTeardown, uaf>>

\* variant of the remove step that looks the handle up and leaves its entry
FreeRemoveKeepsEntry(t) ==
    /\ th[t].pc = "free_remove"
    /\ LET handle == pool_get(registry, th[t].a)
       IN  th' = [th EXCEPT ![t] =
                     [@ EXCEPT !.pc = IF handle = 0 THEN "ret" ELSE "free_unregister",
                               !.res = IF handle = 0 THEN "BAD_BUFFER" ELSE "NONE",
                               !.removed = (handle # 0)]]
    /\ UNCHANGED <<mem, registry, refCount, badTeardown, uaf>>

\* freeBuffer: gRegisteredHandles->remove(bufferHandle) and the null check
FreeRemove(t) ==
    /\ th[t].pc = "free_remove"
    /\ LET r == pool_remove(registry, th[t].a)
       IN  /\ registry' = r.reg
           /\ th' = [th EXCEPT ![t] =
                        [@ EXCEPT !.pc = IF r.handle = 0 THEN "ret" ELSE "free_unregister",
                                  !.res = IF r.handle = 0 THEN "BAD_BUFFER" ELSE "NONE",
                                  !.removed = (r.handle # 0)]]
    /\ UNCHANGED <<mem, refCount, badTeardown, uaf>>

\* A teardown step of thread t on the handle at its address is in order when
\* the handle is there, the step was not taken on it before, its entry is out
\* of the registry and it was this call that removed it.
TeardownInOrder(t, before) ==
    /\ mem[th[t].a].state = "live"
    /\ before = 0
    /\ th[t].a \notin registry
    /\ th[t].removed

\* freeBuffer: unregisterBuffer(handle) and the return on error
FreeUnregister(t) ==
    /\ th[t].pc = "free_unregister"
    /\ LET a == th[t].a
           u == unregisterBuffer(refCount, a)
           released == u.rc # refCount
       IN  /\ refCount' = u.rc
           /\ mem' = IF released THEN [mem EXCEPT ![a].releases = @ + 1] ELSE mem
           /\ badTeardown' =
                 (badTeardown \/ (released /\ ~TeardownInOrder(t, mem[a].releases)))
           /\ th' = [th EXCEPT ![t] =
                        [@ EXCEPT !.pc = IF u.err = "NONE" THEN "free_close" ELSE "ret",
                                  !.res = u.err,
                                  !.tore = IF released THEN @ + 1 ELSE @]]
    /\ UNCHANGED <<registry, uaf>>

\* freeBuffer: native_handle_close(handle)
FreeClose(t) ==
    /\ th[t].pc = "free_close"
    /\ mem' = [mem EXCEPT ![th[t].a].closes = @ + 1]
    /\ badTeardown' = (badTeardown \/ ~TeardownInOrder(t, mem[th[t].a].closes))
    /\ th' = [th EXCEPT ![t] = [@ EXCEPT !.pc = "free_delete", !.tore = @ + 1]]
    /\ UNCHANGED <<registry, refCount, uaf>>

\* a caller that has looked the handle at address a up and has not yet
\* finished with it now holds a pointer to deleted memory
HoldsPointer(u, a) ==
    /\ th[u].op = "get"
    /\ th[u].pc \in {"get_validate", "get_read"}
    /\ th[u].found
    /\ th[u].a = a

\* freeBuffer: native_handle_delete(handle) and return Error::NONE
FreeDelete(t) ==
    /\ th[t].pc = "free_delete"
    /\ mem' = [mem EXCEPT ![th[t].a] = NoHandle]
    /\ badTeardown' = (badTeardown \/ ~TeardownInOrder(t, 0))
    /\ th' = [u \in Threads |->
                 IF u = t
                 THEN [th[u] EXCEPT !.pc = "ret", !.res = "NONE", !.tore = @ + 1]
                 ELSE IF HoldsPointer(u, th[t].a)
                 THEN [th[u] EXCEPT !.stale = TRUE]
                 ELSE th[u]]
    /\ UNCHANGED <<registry, refCount, uaf>>

\* GrallocMapper::get: common::getBuffer(buffer)
GetLookup(t, a) ==
    /\ th[t].pc = "idle"
    /\ LET handle == pool_get(registry, a)
       IN  th' = [th EXCEPT ![t] =
                     [IdleThread EXCEPT !.op = "get", !.a = a, !.pc = "get_validate",
                                        !.found = (handle # 0)]]
    /\ UNCHANGED <<mem, registry, refCount, badTeardown, uaf>>

\* common::get: the null check and mali_gralloc_reference_validate
GetValidate(t) ==
    /\ th[t].pc = "get_validate"
    /\ th' = [th EXCEPT ![t] =
                 IF ~th[t].found
                 THEN [@ EXCEPT !.pc = "ret", !.res = "BAD_BUFFER"]
                 ELSE IF ~mali_gralloc_reference_validate(refCount, th[t].a)
                 THEN [@ EXCEPT !.pc = "ret", !.res = "BAD_VALUE"]
                 ELSE [@ EXCEPT !.pc = "get_read"]]
    /\ UNCHANGED <<mem, registry, refCount, badTeardown, uaf>>

\* common::get: get_metadata(handle, ...) reads the handle.  Reading memory
\* that has been deleted (or handed out again) is undefined: any result.
GetRead(t) ==
    /\ th[t].pc = "get_read"
    /\ IF ~th[t].stale
       THEN /\ th' = [th EXCEPT ![t] = [@ EXCEPT !.pc = "ret", !.res = "NONE"]]
            /\ UNCHANGED uaf
       ELSE /\ \E e \in {"NONE", "BAD_VALUE", "UNSUPPORTED"} :
                  th' = [th EXCEPT ![t] = [@ EXCEPT !.pc = "ret", !.res = e]]
            /\ uaf' = TRUE
    /\ UNCHANGED <<mem, registry, refCount, badTeardown>>

\* the operation returns to its caller
Return(t) ==
    /\ th[t].pc = "ret"
    /\ th' = [th EXCEPT ![t] = IdleThread]
    /\ UNCHANGED <<mem, registry, refCount, badTeardown, uaf>>

\* the client, which holds the address of every imported handle, overwrites
\* the header of one: its signature no longer validates
ClientCorrupt(a) ==
    /\ a \in registry
    /\ mem[a].state = "live"
    /\ mem[a].valid
    /\ mem' = [mem EXCEPT ![a].valid = FALSE]
    /\ UNCHANGED <<registry, refCount, th, badTeardown, uaf>>

\* a registered handle is complete when its memory is there, its reference
\* is retained and no teardown step has been taken on it
Complete(a) ==
    /\ mem[a].state = "live"
    /\ refCount[a] >= 1
    /\ mem[a].releases = 0
    /\ mem[a].closes = 0

\* dumpBuffers: gRegisteredHandles->for_each(dumpBufferHelper), one walk over
\* the entries under the registry's mutex
DumpBuffers(t) ==
    /\ th[t].pc = "idle"
    /\ th' = [th EXCEPT ![t] =
                 [IdleThread EXCEPT !.pc = "ret", !.op = "dump",
                                    !.found = (registry # {})]]
    /\ badVisit' = (badVisit \/ \E a \in registry : ~Complete(a))
    /\ UNCHANGED <<mem, registry, refCount, badTeardown, uaf>>

(***************************************************************************)
(* The diagnostics ring of the allocator (hidl_common/Allocator.cpp):      *)
(* threads that have allocated a buffer append its details, a caller of    *)
(* dump() reads them.  Every step below is one access to the shared state. *)
(***************************************************************************)
Appenders == {"a1", "a2"}

\* allocations each thread makes
MaxAppends == 1

\* std::array<BufferDetails, 2048> allocated_buffers
RingCapacity == 2048

\* the slots the allocations of the model can reach: the first ones and,
\* for a counter that starts just before a wrap, the last one
Slots == 0..(Cardinality(Appenders) * MaxAppends - 1) \cup {RingCapacity - 1}

\* a slot no allocation has written: a default-constructed BufferDetails
EmptySlot == <<"none", 0>>

\* k: the place of the thread's fetch_add among all fetch_adds so far
IdleAppender == [pc |-> "idle", idx |-> 0, seen |-> 0, done |-> 0, k |-> 0]

IdleDumper == [pc |-> "idle", acquired |-> FALSE, result |-> <<>>,
               quiet |-> FALSE, started |-> 0]

\* the globals after n allocations, none in progress: the 16-bit counter has
\* wrapped n \div 65536 times; fetched counts the fetch_add calls so far
RingAfter(n) ==
    [next_idx |-> n % 65536, total_allocated |-> n, fetched |-> n,
     allocated_buffers |-> [i \in Slots |-> EmptySlot]]

DiagIdle ==
    /\ ring = RingAfter(0)
    /\ ringMutex = [shared |-> {}, exclusive |-> FALSE]
    /\ appender = [t \in Appenders |-> IdleAppender]
    /\ dumper = IdleDumper

\* A fetch_add whose result is used as the slot without the modulo.
FetchAddNoModulo(t) ==
    /\ appender[t].pc = "idle"
    /\ appender[t].done < MaxAppends
    /\ appender' = [appender EXCEPT ![t].pc = "lock_shared",
                                    ![t].idx = ring.next_idx,
                                    ![t].k = ring.fetched]
    /\ ring' = [ring EXCEPT !.next_idx = (ring.next_idx + 1) % 65536,
                            !.fetched = @ + 1]
    /\ UNCHANGED <<ringMutex, dumper>>

\* auto idx = next_idx.fetch_add(1); idx %= allocated_buffers.size();
FetchAdd(t) ==
    /\ appender[t].pc = "idle"
    /\ appender[t].done < MaxAppends
    /\ appender' = [appender EXCEPT ![t].pc = "lock_shared",
                                    ![t].idx = ring.next_idx % RingCapacity,
                                    ![t].k = ring.fetched]
    /\ ring' = [ring EXCEPT !.next_idx = (ring.next_idx + 1) % 65536,
                            !.fetched = @ + 1]
    /\ UNCHANGED <<ringMutex, dumper>>

\* allocated_buffers_mutex.lock_shared(): taken at once when no thread holds
\* the mutex exclusively; the caller waits inside the call otherwise
LockShared(t) ==
    /\ appender[t].pc = "lock_shared"
    /\ IF ringMutex.exclusive
       THEN /\ appender' = [appender EXCEPT ![t].pc = "blocked"]
            /\ UNCHANGED ringMutex
       ELSE /\ appender' = [appender EXCEPT ![t].pc = "write"]
            /\ ringMutex' = [ringMutex EXCEPT !.shared = @ \cup {t}]
    /\ UNCHANGED <<ring, dumper>>

\* the waiting lock_shared returns once the exclusive holder has unlocked
LockSharedWakes(t) ==
    /\ appender[t].pc = "blocked"
    /\ ~ringMutex.exclusive
    /\ appender' = [appender EXCEPT ![t].pc = "write"]
    /\ ringMutex' = [ringMutex EXCEPT !.shared = @ \cup {t}]
    /\ UNCHANGED <<ring, dumper>>

\* allocated_buffers[idx] = BufferDetails{...}
WriteSlot(t) ==
    /\ appender[t].pc = "write"
    /\ ring' = [ring EXCEPT !.allocated_buffers[appender[t].idx] =
                                <<t, appender[t].done + 1>>]
    /\ appender' = [appender EXCEPT ![t].pc = "unlock_shared"]
    /\ UNCHANGED <<ringMutex, dumper>>

\* allocated_buffers_mutex.unlock_shared()
UnlockShared(t) ==
    /\ appender[t].pc = "unlock_shared"
    /\ ringMutex' = [ringMutex EXCEPT !.shared = @ \ {t}]
    /\ appender' = [appender EXCEPT ![t].pc = "read_total"]
    /\ UNCHANGED <<ring, dumper>>

\* total_allocated++ on a plain uint64_t, outside the mutex: the load ...
ReadTotal(t) ==
    /\ appender[t].pc = "read_total"
    /\ appender' = [appender EXCEPT ![t].pc = "write_total",
                                    ![t].seen = ring.total_allocated]
    /\ UNCHANGED <<ring, ringMutex, dumper>>

\* ... and the store of the incremented value
WriteTotal(t) ==
    /\ appender[t].pc = "write_total"
    /\ ring' = [ring EXCEPT !.total_allocated = appender[t].seen + 1]
    /\ appender' = [appender EXCEPT ![t].pc = "idle", ![t].done = @ + 1]
    /\ UNCHANGED <<ringMutex, dumper>>

\* dump() is called; quiet and started record whether every allocation
\* begun so far was complete at that moment, and how many there were
DumpCall ==
    /\ dumper.pc = "idle"
    /\ dumper' = [IdleDumper EXCEPT !.pc = "try_lock_for",
                                    !.quiet = (\A t \in Appenders : appender[t].pc = "idle"),
                                    !.started = ring.next_idx]
    /\ UNCHANGED <<ring, ringMutex, appender>>

\* try_lock_for(100ms) obtains the mutex: no thread holds it
DumpAcquire ==
    /\ dumper.pc = "try_lock_for"
    /\ ringMutex.shared = {} /\ ~ringMutex.exclusive
    /\ ringMutex' = [ringMutex EXCEPT !.exclusive = TRUE]
    /\ dumper' = [dumper EXCEPT !.pc = "format", !.acquired = TRUE]
    /\ UNCHANGED <<ring, appender>>

\* A dump that waits for the mutex without a time limit.
DumpWaits ==
    /\ dumper.pc = "try_lock_for"
    /\ UNCHANGED <<ring, ringMutex, appender, dumper>>

\* try_lock_for(100ms) returns false after its time: return ""
DumpTimeout ==
    /\ dumper.pc = "try_lock_for"
    /\ dumper' = [dumper EXCEPT !.pc = "ret", !.result = <<>>]
    /\ UNCHANGED <<ring, ringMutex, appender>>

\* std::min(total_allocated, allocated_buffers.size())
DumpCount == IF ring.total_allocated < RingCapacity
             THEN ring.total_allocated ELSE RingCapacity

\* the for loop: one line per slot 0 .. min(total_allocated, size) - 1
DumpFormat ==
    /\ dumper.pc = "format"
    /\ dumper' = [dumper EXCEPT !.pc = "unlock",
                                !.result = [i \in 1..DumpCount |->
                                               ring.allocated_buffers[i - 1]]]
    /\ UNCHANGED <<ring, ringMutex, appender>>

\* allocated_buffers_mutex.unlock(); return ss.str();
DumpUnlock ==
    /\ dumper.pc = "unlock"
    /\ ringMutex' = [ringMutex EXCEPT !.exclusive = FALSE]
    /\ dumper' = [dumper EXCEPT !.pc = "ret"]
    /\ UNCHANGED <<ring, appender>>

\* the caller has the string
DumpReturn ==
    /\ dumper.pc = "ret"
    /\ dumper' = IdleDumper
    /\ UNCHANGED <<ring, ringMutex, appender>>

DiagFrame == UNCHANGED <<codecVars, allocVars, regVars, opsVars, heapVars, ionVars>>

\* the steps of the caller of dump()
DumpStep ==
    \/ DumpCall /\ DiagFrame
    \/ DumpAcquire /\ DiagFrame
    \/ DumpTimeout /\ DiagFrame
    \/ DumpFormat /\ DiagFrame
    \/ DumpUnlock /\ DiagFrame
    \/ DumpReturn /\ DiagFrame

\* the allocating threads alone, no dump() in progress
RingNext ==
    \/ (\E t \in Appenders : FetchAdd(t)) /\ DiagFrame
    \/ (\E t \in Appenders : LockShared(t)) /\ DiagFrame
    \/ (\E t \in Appenders : WriteSlot(t)) /\ DiagFrame
    \/ (\E t \in Appenders : UnlockShared(t)) /\ DiagFrame
    \/ (\E t \in Appenders : ReadTotal(t)) /\ DiagFrame
    \/ (\E t \in Appenders : WriteTotal(t)) /\ DiagFrame

\* allocations made before the ones of the model: none, one less than the
\* ring holds, one less than the 16-bit counter holds, and the same one lap
\* of the counter later
RingStarts == {0, RingCapacity - 1, 65535, 65536 + 65535}

\* the ring after that many allocations
RingInit ==
    /\ ring \in {RingAfter(n) : n \in RingStarts}
    /\ ringMutex = [shared |-> {}, exclusive |-> FALSE]
    /\ appender = [t \in Appenders |-> IdleAppender]
    /\ dumper = IdleDumper

DiagNext ==
    \/ (\E t \in Appenders : FetchAdd(t)) /\ DiagFrame
    \/ (\E t \in Appenders : LockShared(t)) /\ DiagFrame
    \/ (\E t \in Appenders : LockSharedWakes(t)) /\ DiagFrame
    \/ (\E t \in Appenders : WriteSlot(t)) /\ DiagFrame
    \/ (\E t \in Appenders : UnlockShared(t)) /\ DiagFrame
    \/ (\E t \in Appenders : ReadTotal(t)) /\ DiagFrame
    \/ (\E t \in Appenders : WriteTotal(t)) /\ DiagFrame
    \/ DumpCall /\ DiagFrame
    \/ DumpAcquire /\ DiagFrame
    \/ DumpTimeout /\ DiagFrame
    \/ DumpFormat /\ DiagFrame
    \/ DumpUnlock /\ DiagFrame
    \/ DumpReturn /\ DiagFrame

(***************************************************************************)
(* mali_gralloc_ion_allocate (allocator/mali_gralloc_ion.cpp): one call,   *)
(* one step per loop iteration.  File descriptors are numbers: the heap    *)
(* hands out 1, 2, ... in turn, and 0 is the fd a caller passes as ion_fd. *)
(* A handle is known by its address, i + 1 for descriptor i; 0 is NULL.    *)
(***************************************************************************)
\* descriptors of one call
MaxDescriptors == 2

\* int fds[MAX_FDS]; std::fill(fds, fds + MAX_FDS, -1);
NoFds == [k \in 1..(MaxPlanes + 1) |-> -1]

\* a private_handle_t that does not exist
NoIonHandle == [fds |-> <<>>, fd_count |-> 0]

IdleIonCall ==
    [pc |-> "idle", numDescriptors |-> 0, fd_count |-> <<>>, ion_fd |-> -1,
     i |-> 0, fidx |-> 0, cidx |-> 0, fds |-> NoFds, pHandle |-> <<>>,
     ret |-> 0]

IdleIonSys ==
    [open |-> {}, opened |-> {}, closed |-> <<>>, deleted |-> <<>>,
     nextFd |-> 1, heap |-> [a \in 1..MaxDescriptors |-> NoIonHandle]]

IonAllocIdle ==
    /\ ionCall = IdleIonCall
    /\ ionSys = IdleIonSys

\* close(fd)
close(fd, sys) ==
    [sys EXCEPT !.open = @ \ {fd}, !.closed = Append(@, fd)]

RECURSIVE ClosePlanesOf(_, _, _)
\* the loop of mali_gralloc_ion_free from plane k on: close(hnd->fds[k])
ClosePlanesOf(a, k, sys) ==
    IF k > sys.heap[a].fd_count
    THEN sys
    ELSE ClosePlanesOf(a, k + 1,
             [close(sys.heap[a].fds[k], sys) EXCEPT !.heap[a].fds[k] = -1])

\* mali_gralloc_ion_free(hnd): every plane closed (no plane is mapped here,
\* so nothing is unmapped), then delete hnd
mali_gralloc_ion_free(a, sys) ==
    [ClosePlanesOf(a, 1, sys) EXCEPT !.deleted = Append(@, a)]

RECURSIVE FreeFrom(_, _, _, _)
FreeFrom(pHandle, num_hnds, k, sys) ==
    IF k > num_hnds
    THEN sys
    ELSE FreeFrom(pHandle, num_hnds, k + 1,
                  IF pHandle[k] # 0
                  THEN mali_gralloc_ion_free(pHandle[k], sys)
                  ELSE sys)

\* A clean-up that leaves the handles already built alone.
mali_gralloc_ion_free_internal_none(pHandle, num_hnds, sys) == sys

\* mali_gralloc_ion_free_internal(pHandle, num_hnds)
mali_gralloc_ion_free_internal(pHandle, num_hnds, sys) ==
    FreeFrom(pHandle, num_hnds, 1, sys)

\* entry: the caller's descriptors, its cleared handle array and ion_fd.  A
\* caller passes an fd of its own only with a single descriptor (allocate in
\* hidl_common/Allocator.cpp always passes one descriptor and a null handle).
IonAllocateCall ==
    /\ ionCall.pc = "idle"
    /\ \E n \in 1..MaxDescriptors, given \in {-1, 0} :
         \E counts \in [1..n -> 1..MaxPlanes] :
            /\ (given >= 0) => (n = 1)
            /\ ionCall' = [IdleIonCall EXCEPT !.pc = "desc",
                                              !.numDescriptors = n,
                                              !.fd_count = counts,
                                              !.ion_fd = given,
                                              !.pHandle = [k \in 1..n |-> 0]]
            /\ ionSys' = [ionSys EXCEPT !.open = IF given >= 0 THEN {given} ELSE {}]

\* for (i = 0; i < numDescriptors; i++): the head of the loop, return 0 after it
IonNextDescriptor ==
    /\ ionCall.pc = "desc"
    /\ IF ionCall.i < ionCall.numDescriptors
       THEN ionCall' = [ionCall EXCEPT !.pc = "plane", !.fidx = 0]
       ELSE ionCall' = [ionCall EXCEPT !.pc = "done", !.ret = 0]
    /\ UNCHANGED ionSys

\* one iteration of the loop over the planes: the fd is ion_fd or comes from
\* alloc_from_ion_heap, which hands out a new fd or fails with -1
IonAllocPlane ==
    /\ ionCall.pc = "plane"
    /\ ionCall.fidx < ionCall.fd_count[ionCall.i + 1]
    /\ IF ionCall.ion_fd >= 0 /\ ionCall.fidx = 0
       THEN /\ ionCall' = [ionCall EXCEPT !.fds[1] = ionCall.ion_fd, !.fidx = 1]
            /\ UNCHANGED ionSys
       ELSE \E ok \in BOOLEAN :
               IF ok
               THEN /\ ionCall' = [ionCall EXCEPT !.fds[ionCall.fidx + 1] = ionSys.nextFd,
                                                  !.fidx = @ + 1]
                    /\ ionSys' = [ionSys EXCEPT !.open = @ \cup {ionSys.nextFd},
                                                !.opened = @ \cup {ionSys.nextFd},
                                                !.nextFd = @ + 1]
               ELSE /\ ionCall' = [ionCall EXCEPT !.fds[ionCall.fidx + 1] = -1,
                                                  !.pc = "close", !.cidx = 0]
                    /\ UNCHANGED ionSys

\* for (cidx = 0; cidx < fidx; cidx++) close(fds[cidx]);
IonClosePlane ==
    /\ ionCall.pc = "close"
    /\ IF ionCall.cidx < ionCall.fidx
       THEN /\ ionSys' = close(ionCall.fds[ionCall.cidx + 1], ionSys)
            /\ ionCall' = [ionCall EXCEPT !.cidx = @ + 1]
       ELSE /\ ionCall' = [ionCall EXCEPT !.pc = "free"]
            /\ UNCHANGED ionSys

\* mali_gralloc_ion_free_internal(pHandle, numDescriptors); return -1;
IonFreeAndReturn ==
    /\ ionCall.pc = "free"
    /\ ionSys' = mali_gralloc_ion_free_internal(ionCall.pHandle,
                                                ionCall.numDescriptors, ionSys)
    /\ ionCall' = [ionCall EXCEPT !.pc = "done", !.ret = -1]

\* new private_handle_t(..., fds, fd_count, ...); pHandle[i] = hnd.  An
\* allocation failure in new throws: the NULL branch is never taken.
IonBuildHandle ==
    /\ ionCall.pc = "plane"
    /\ ionCall.fidx = ionCall.fd_count[ionCall.i + 1]
    /\ ionSys' = [ionSys EXCEPT !.heap[ionCall.i + 1] =
                      [fds |-> SubSeq(ionCall.fds, 1, ionCall.fidx),
                       fd_count |-> ionCall.fidx]]
    /\ ionCall' = [ionCall EXCEPT !.pHandle[ionCall.i + 1] = ionCall.i + 1,
                                  !.i = @ + 1, !.pc = "desc"]

IonAllocFrame == UNCHANGED <<codecVars, allocVars, regVars, opsVars, heapVars,
                             diagVars, ionMap>>

IonAllocNext ==
    \/ IonAllocateCall /\ IonAllocFrame
    \/ IonNextDescriptor /\ IonAllocFrame
    \/ IonAllocPlane /\ IonAllocFrame
    \/ IonClosePlane /\ IonAllocFrame
    \/ IonFreeAndReturn /\ IonAllocFrame
    \/ IonBuildHandle /\ IonAllocFrame

(***************************************************************************)
(* mali_gralloc_ion_map (allocator/mali_gralloc_ion.cpp): one call on a    *)
(* handle none of whose planes is mapped, one step per loop iteration.     *)
(***************************************************************************)
\* planes of the handle that is mapped
MaxMapPlanes == 3

\* the largest int: fidx and cidx are int
IntMax == 2147483647

\* the usage bits the function looks at
MapUsages == SUBSET {"PROTECTED", "NOZEROED", "PRIVATE_NONSECURE"}

\* errno after a failed mmap
MapErrnos == {12, 22}

\* A test that looks at PROTECTED alone.
NoCpuAccessProtectedOnly(usage) ==
    /\ "PROTECTED" \in usage
    /\ "PRIVATE_NONSECURE" \notin usage

\* usage & (PROTECTED | NOZEROED) && !(usage & PRIVATE_NONSECURE)
NoCpuAccess(usage) ==
    /\ usage \cap {"PROTECTED", "NOZEROED"} # {}
    /\ "PRIVATE_NONSECURE" \notin usage

\* the address mmap returns for plane fidx
MappedAddress(fidx) == 4096 * (fidx + 1)

IdleIonMap ==
    [pc |-> "idle", usage |-> {}, fd_count |-> 1, fidx |-> 0, cidx |-> 0,
     bases |-> <<0>>, err |-> 0, ret |-> 0, failed |-> -1, unmapped |-> <<>>,
     mmaps |-> 0]

IonMapIdle == ionMap = IdleIonMap

IonIdle == IonAllocIdle /\ IonMapIdle

\* entry: return 0 at once for a buffer the CPU may not access
IonMapCall ==
    /\ ionMap.pc = "idle"
    /\ \E usage \in MapUsages, n \in 1..MaxMapPlanes :
          ionMap' = [IdleIonMap EXCEPT
                        !.usage = usage, !.fd_count = n,
                        !.bases = [k \in 1..n |-> 0],
                        !.pc = IF NoCpuAccess(usage) THEN "done" ELSE "mmap"]

\* one iteration of the loop over the planes, return 0 after the last
IonMapPlane ==
    /\ ionMap.pc = "mmap"
    /\ IF ionMap.fidx < ionMap.fd_count
       THEN \/ ionMap' = [ionMap EXCEPT
                             !.bases[ionMap.fidx + 1] = MappedAddress(ionMap.fidx),
                             !.fidx = @ + 1, !.mmaps = @ + 1]
            \/ \E e \in MapErrnos :
                  ionMap' = [ionMap EXCEPT !.err = e, !.failed = ionMap.fidx,
                                           !.cidx = 0, !.pc = "cleanup",
                                           !.mmaps = @ + 1]
       ELSE ionMap' = [ionMap EXCEPT !.pc = "done", !.ret = 0]

\* for (int cidx = 0; cidx < fidx; fidx++) { munmap(bases[cidx]); bases[cidx] = 0; }
\* One iteration, fidx below INT_MAX.  Once bases[cidx] is 0 the iterations up
\* to fidx = INT_MAX all call munmap on a null address and change nothing but
\* fidx: they are taken as one step.
IonMapCleanup ==
    /\ ionMap.pc = "cleanup"
    /\ ionMap.cidx < ionMap.fidx
    /\ ionMap.fidx < IntMax
    /\ ionMap' = [ionMap EXCEPT
                     !.unmapped = IF ionMap.bases[ionMap.cidx + 1] # 0
                                  THEN Append(@, ionMap.cidx) ELSE @,
                     !.bases[ionMap.cidx + 1] = 0,
                     !.fidx = IF ionMap.bases[ionMap.cidx + 1] # 0
                              THEN @ + 1 ELSE IntMax]

\* The iteration at fidx = INT_MAX: fidx++ overflows a signed int, which is
\* undefined.  The build either wraps fidx to INT_MIN, and the loop ends, or
\* has taken cidx < fidx as always true, and the loop never ends.
IonMapCleanupOverflow ==
    /\ ionMap.pc = "cleanup"
    /\ ionMap.cidx < ionMap.fidx
    /\ ionMap.fidx = IntMax
    /\ \/ ionMap' = [ionMap EXCEPT !.fidx = -IntMax - 1]
       \/ ionMap' = [ionMap EXCEPT !.pc = "hang"]

\* the loop is over: return -err
IonMapFail ==
    /\ ionMap.pc = "cleanup"
    /\ ~(ionMap.cidx < ionMap.fidx)
    /\ ionMap' = [ionMap EXCEPT !.pc = "done", !.ret = -ionMap.err]

IonMapFrame == UNCHANGED <<codecVars, allocVars, regVars, opsVars, heapVars,
                           diagVars, ionCall, ionSys>>

IonMapNext ==
    \/ IonMapCall /\ IonMapFrame
    \/ IonMapPlane /\ IonMapFrame
    \/ IonMapCleanup /\ IonMapFrame
    \/ IonMapCleanupOverflow /\ IonMapFrame
    \/ IonMapFail /\ IonMapFrame

(***************************************************************************)
(* Heap selection (allocator/mali_gralloc_ion.cpp).                        *)
(* A usage word is the set of the usage bits that are set in it.  The      *)
(* bits the selection tests are named; OTHER stands for any bit it does    *)
(* not test.  Heap masks are named by their macro.                         *)
(***************************************************************************)
UsageBits == {"PROTECTED", "HW_CAMERA_WRITE", "HW_CAMERA_READ", "HW_COMPOSER",
              "HW_TEXTURE", "HW_RENDER", "TPU_INPUT", "TPU_OUTPUT",
              "PRIVATE_NONSECURE", "SENSOR_DIRECT_DATA", "OTHER"}

Usages == SUBSET UsageBits

HeapSpecifier(usage_bits, mask) == [usage_bits |-> usage_bits, mask |-> mask]

faceauth_heaps ==
    << HeapSpecifier({"PROTECTED", "HW_CAMERA_WRITE", "TPU_INPUT"},
                     "EXYNOS_ION_HEAP_FA_IMG_MASK"),
       HeapSpecifier({"PROTECTED", "HW_CAMERA_WRITE", "HW_CAMERA_READ"},
                     "EXYNOS_ION_HEAP_FA_RAWIMG_MASK"),
       HeapSpecifier({"PROTECTED", "HW_CAMERA_WRITE", "HW_COMPOSER", "HW_TEXTURE"},
                     "EXYNOS_ION_HEAP_FA_PREV_MASK"),
       HeapSpecifier({"PROTECTED", "TPU_INPUT"},
                     "EXYNOS_ION_HEAP_FA_MODEL_MASK"),
       HeapSpecifier({"PROTECTED", "TPU_OUTPUT", "TPU_INPUT"},
                     "EXYNOS_ION_HEAP_FA_TPU_MASK") >>

\* A specifier that matches as soon as all of its bits are set.
SpecifierMatchesSubset(usage, heap) == heap.usage_bits \subseteq usage

\* usage == heap.usage_bits
SpecifierMatches(usage, heap) == usage = heap.usage_bits

\* The for loop over a table of specifiers: the mask of the first specifier
\* that matches, 0 when none does.
RECURSIVE FaceauthLookup(_, _, _)
FaceauthLookup(usage, table, i) ==
    IF i > Len(table) THEN "0"
    ELSE IF SpecifierMatches(usage, table[i]) THEN table[i].mask
    ELSE FaceauthLookup(usage, table, i + 1)

select_faceauth_heap_mask(usage) == FaceauthLookup(usage, faceauth_heaps, 1)

\* A selection whose video-scaler test leaves out HW_RENDER.
select_heap_mask_without_render(usage) ==
    IF select_faceauth_heap_mask(usage) # "0"
    THEN select_faceauth_heap_mask(usage)
    ELSE IF "PROTECTED" \in usage
    THEN IF "PRIVATE_NONSECURE" \in usage
         THEN "EXYNOS_ION_HEAP_SYSTEM_MASK"
         ELSE IF "HW_COMPOSER" \in usage /\ "HW_TEXTURE" \notin usage
         THEN "EXYNOS_ION_HEAP_VIDEO_SCALER_MASK"
         ELSE "EXYNOS_ION_HEAP_VIDEO_FRAME_MASK"
    ELSE IF "SENSOR_DIRECT_DATA" \in usage
    THEN "EXYNOS_ION_HEAP_SENSOR_DIRECT_MASK"
    ELSE "EXYNOS_ION_HEAP_SYSTEM_MASK"

select_heap_mask(usage) ==
    IF select_faceauth_heap_mask(usage) # "0"
    THEN select_faceauth_heap_mask(usage)
    ELSE IF "PROTECTED" \in usage
    THEN IF "PRIVATE_NONSECURE" \in usage
         THEN "EXYNOS_ION_HEAP_SYSTEM_MASK"
         ELSE IF /\ "HW_COMPOSER" \in usage
                 /\ "HW_TEXTURE" \notin usage
                 /\ "HW_RENDER" \notin usage
         THEN "EXYNOS_ION_HEAP_VIDEO_SCALER_MASK"
         ELSE "EXYNOS_ION_HEAP_VIDEO_FRAME_MASK"
    ELSE IF "SENSOR_DIRECT_DATA" \in usage
    THEN "EXYNOS_ION_HEAP_SENSOR_DIRECT_MASK"
    ELSE "EXYNOS_ION_HEAP_SYSTEM_MASK"

\* The switch of select_dmabuf_heap; "" is the empty name of its default.
select_dmabuf_heap(heap_mask) ==
    CASE heap_mask = "EXYNOS_ION_HEAP_SENSOR_DIRECT_MASK" -> "sensor_direct_heap"
      [] heap_mask = "EXYNOS_ION_HEAP_FA_TPU_MASK" -> "faceauth_tpu-secure"
      [] heap_mask = "EXYNOS_ION_HEAP_FA_IMG_MASK" -> "faimg-secure"
      [] heap_mask = "EXYNOS_ION_HEAP_FA_RAWIMG_MASK" -> "farawimg-secure"
      [] heap_mask = "EXYNOS_ION_HEAP_FA_PREV_MASK" -> "faprev-secure"
      [] heap_mask = "EXYNOS_ION_HEAP_FA_MODEL_MASK" -> "famodel-secure"
      [] heap_mask = "EXYNOS_ION_HEAP_VIDEO_FRAME_MASK" -> "vframe-secure"
      [] heap_mask = "EXYNOS_ION_HEAP_VIDEO_STREAM_MASK" -> "vstream-secure"
      [] OTHER -> ""

HeapCall(pc, usage, heap_mask, name, via) ==
    [pc |-> pc, usage |-> usage, heap_mask |-> heap_mask, name |-> name,
     via |-> via]

\* GRALLOC_USAGE_SW_READ_MASK is a four-bit field of the usage word;
\* GRALLOC_USAGE_SW_READ_OFTEN is the value 3 of that field and
\* GRALLOC_USAGE_SW_READ_RARELY the value 2.
SW_READ_MASK == {"SW_READ_1", "SW_READ_2", "SW_READ_4", "SW_READ_8"}

SW_READ_OFTEN == {"SW_READ_1", "SW_READ_2"}

SW_READ_RARELY == {"SW_READ_2"}

\* the values of the CPU-read field the requests are drawn with: never,
\* rarely, often, and often with a further bit of the field set
ReadFields == {{}, SW_READ_RARELY, SW_READ_OFTEN, SW_READ_OFTEN \cup {"SW_READ_4"}}

HeapUsages == {u \cup r : u \in Usages, r \in ReadFields}

\* bufDescriptor->alloc_sizes[fidx]
AllocSizes == {0, 4096}

\* A cached flag that is set whenever the read-often bits are among the
\* bits set.
ReadOftenBitsSet(usage) == SW_READ_OFTEN \subseteq usage

\* (usage & GRALLOC_USAGE_SW_READ_MASK) == GRALLOC_USAGE_SW_READ_OFTEN
ReadOften(usage) == (usage \cap SW_READ_MASK) = SW_READ_OFTEN

set_ion_flags(usage, ion_flags) ==
    LET cached == IF ReadOften(usage)
                  THEN ion_flags \cup {"ION_FLAG_CACHED"} ELSE ion_flags
        protected == IF "PROTECTED" \in usage
                     THEN cached \cup {"ION_FLAG_PROTECTED"} ELSE cached
    IN  IF "SENSOR_DIRECT_DATA" \in usage
        THEN protected \ {"ION_FLAG_CACHED"} ELSE protected

IonRequest(size, ion_flags, shared_fd) ==
    [size |-> size, ion_flags |-> ion_flags, shared_fd |-> shared_fd]

HeapIdle ==
    /\ heapSel = HeapCall("idle", {}, "none", "none", "none")
    /\ ionReq = IonRequest(0, {}, "none")

\* One plane of one descriptor in mali_gralloc_ion_allocate: some usage and
\* some size, ion_flags = 0.
HeapInit ==
    /\ \E usage \in HeapUsages :
          heapSel = HeapCall("call", usage, "none", "none", "none")
    /\ \E size \in AllocSizes : ionReq = IonRequest(size, {}, "none")

\* set_ion_flags(usage, &ion_flags), then alloc_from_ion_heap is entered
SetIonFlags ==
    /\ heapSel.pc = "call"
    /\ ionReq' = [ionReq EXCEPT !.ion_flags = set_ion_flags(heapSel.usage, {})]
    /\ heapSel' = [heapSel EXCEPT !.pc = "enter"]

\* A request of size 0 that goes on to heap selection like any other.
ZeroSizeSelectsHeap ==
    /\ heapSel.pc = "enter"
    /\ ionReq.size = 0
    /\ heapSel' = [heapSel EXCEPT !.pc = "mask",
                                  !.heap_mask = select_heap_mask(heapSel.usage)]
    /\ UNCHANGED ionReq

\* if (size == 0) return -1;
RejectZeroSize ==
    /\ heapSel.pc = "enter"
    /\ ionReq.size = 0
    /\ ionReq' = [ionReq EXCEPT !.shared_fd = "-1"]
    /\ heapSel' = [heapSel EXCEPT !.pc = "rejected"]

\* unsigned int heap_mask = select_heap_mask(usage);
SelectHeapMask ==
    /\ heapSel.pc = "enter"
    /\ ionReq.size # 0
    /\ heapSel' = [heapSel EXCEPT !.pc = "mask",
                                  !.heap_mask = select_heap_mask(heapSel.usage)]
    /\ UNCHANGED ionReq

\* auto dmabuf_heap_name = select_dmabuf_heap(heap_mask);
SelectDmabufHeap ==
    /\ heapSel.pc = "mask"
    /\ heapSel' = [heapSel EXCEPT !.pc = "name",
                                  !.name = select_dmabuf_heap(heapSel.heap_mask)]
    /\ UNCHANGED ionReq

\* A named heap is allocated from through the DMA-BUF allocator, any other
\* through exynos_ion_alloc with the heap mask; either passes the flags and
\* returns the fd or a negative value.
AllocFromHeap ==
    /\ heapSel.pc = "name"
    /\ heapSel' = [heapSel EXCEPT !.pc = "done",
                                  !.via = IF heapSel.name # ""
                                          THEN "alloc_from_dmabuf_heap"
                                          ELSE "exynos_ion_alloc"]
    /\ \E fd \in {"fd", "-1"} : ionReq' = [ionReq EXCEPT !.shared_fd = fd]

HeapFrame == UNCHANGED <<codecVars, allocVars, regVars, opsVars, diagVars, ionVars>>

HeapNext ==
    \/ SetIonFlags /\ HeapFrame
    \/ RejectZeroSize /\ HeapFrame
    \/ SelectHeapMask /\ HeapFrame
    \/ SelectDmabufHeap /\ HeapFrame
    \/ AllocFromHeap /\ HeapFrame

HeapStart == CodecIdle /\ AllocIdle /\ RegIdle /\ OpsIdle /\ HeapInit /\ DiagIdle /\ IonIdle

SpecHeap == HeapStart /\ [][HeapNext]_vars

DiagStart == CodecIdle /\ AllocIdle /\ RegIdle /\ OpsIdle /\ HeapIdle /\ DiagIdle /\ IonIdle

SpecDiag == DiagStart /\ [][DiagNext]_vars

\* The thread that called dump() keeps running: its next step is taken
\* whenever it stays possible.
SpecDiagFair == DiagStart /\ [][DiagNext]_vars /\ WF_vars(DumpStep)

RingStart == CodecIdle /\ AllocIdle /\ RegIdle /\ OpsIdle /\ HeapIdle /\ RingInit /\ IonIdle

SpecRing == RingStart /\ [][RingNext]_vars

IonStart == CodecIdle /\ AllocIdle /\ RegIdle /\ OpsIdle /\ HeapIdle /\ DiagIdle /\ IonIdle

SpecIonAlloc == IonStart /\ [][IonAllocNext]_vars

SpecIonMap == IonStart /\ [][IonMapNext]_vars

RegInit == CodecIdle /\ AllocIdle /\ RegIdle /\ OpsIdle /\ HeapIdle /\ DiagIdle /\ IonIdle

RegFrame == UNCHANGED <<codecVars, allocVars, opsVars, heapVars, diagVars, ionVars>>

RegNext ==
    \/ (\E t \in Threads, raw \in RawHandles : ImportClone(t, raw)) /\ RegFrame /\ UNCHANGED badVisit
    \/ (\E t \in Threads : ImportRegister(t)) /\ RegFrame /\ UNCHANGED badVisit
    \/ (\E t \in Threads : ImportAdd(t)) /\ RegFrame /\ UNCHANGED badVisit
    \/ (\E t \in Threads, a \in Addrs : FreeLookup(t, a)) /\ RegFrame /\ UNCHANGED badVisit
    \/ (\E t \in Threads : FreeRemove(t)) /\ RegFrame /\ UNCHANGED badVisit
    \/ (\E t \in Threads : FreeUnregister(t)) /\ RegFrame /\ UNCHANGED badVisit
    \/ (\E t \in Threads : FreeClose(t)) /\ RegFrame /\ UNCHANGED badVisit
    \/ (\E t \in Threads : FreeDelete(t)) /\ RegFrame /\ UNCHANGED badVisit
    \/ (\E t \in Threads, a \in Addrs : GetLookup(t, a)) /\ RegFrame /\ UNCHANGED badVisit
    \/ (\E t \in Threads : GetValidate(t)) /\ RegFrame /\ UNCHANGED badVisit
    \/ (\E t \in Threads : GetRead(t)) /\ RegFrame /\ UNCHANGED badVisit
    \/ (\E t \in Threads : Return(t)) /\ RegFrame /\ UNCHANGED badVisit
    \/ (\E a \in Addrs : ClientCorrupt(a)) /\ RegFrame /\ UNCHANGED badVisit
    \/ (\E t \in Threads : DumpBuffers(t)) /\ RegFrame

SpecReg == RegInit /\ [][RegNext]_vars

(***************************************************************************)
(* The specifications.                                                     *)
(***************************************************************************)
AllocInit == CodecIdle /\ AllocIdle /\ RegIdle /\ OpsIdle /\ HeapIdle /\ DiagIdle /\ IonIdle

CodecStart == CodecInit /\ AllocIdle /\ RegIdle /\ OpsIdle /\ HeapIdle /\ DiagIdle /\ IonIdle

SpecCodec == CodecStart /\ [][CodecNext]_vars

SpecAlloc == AllocInit /\ [][AllocNext]_vars

OpsStart == CodecIdle /\ AllocIdle /\ RegIdle /\ OpsInit /\ HeapIdle /\ DiagIdle /\ IonIdle

SpecOps == OpsStart /\ [][OpsNext]_vars

(***************************************************************************)
(* Claims about the descriptor codec (checked under SpecCodec).            *)
(***************************************************************************)
NoEmbeddedNul(s) == \A i \in 1..Len(s) : s[i] # 0

ValidRequest(d) ==
    /\ d.width # Zero32
    /\ d.height # Zero32
    /\ d.layerCount # Zero32
    /\ d.format # Zero32
    /\ NoEmbeddedNul(d.name)

\* C3: for every valid request whose name has no embedded NUL, decoding the
\* bytes the encoder produced succeeds and yields the same width, height,
\* layer_count, format, reserved_size and name, with producer_usage and
\* consumer_usage both equal to the request's usage.
C3_RoundTrip ==
    (cpc = "decoded" /\ ~tampered /\ ValidRequest(info)) =>
        /\ createErr = "NONE"
        /\ decoded.ok
        /\ decoded.desc.width = info.width
        /\ decoded.desc.height = info.height
        /\ decoded.desc.layer_count = info.layerCount
        /\ decoded.desc.hal_format = ZeroExtend(info.format)
        /\ decoded.desc.producer_usage = info.usage
        /\ decoded.desc.consumer_usage = info.usage
        /\ decoded.desc.reserved_size = info.reservedSize
        /\ decoded.desc.name = info.name

C3_Witness ==
    /\ cpc = "decoded"
    /\ ~tampered
    /\ ValidRequest(info)
    /\ info.width = <<65535, 65535>>
    /\ info.format = <<258, 32768>>
    /\ info.usage = <<51, 0, 256, 61440>>
    /\ info.reservedSize # Zero64
    /\ info.name = <<97, 98>>
    /\ decoded.ok
    /\ decoded.desc.name = <<97, 98>>

\* the first 32-bit field of b as the bytes a little-endian reader sees
HasVersionTag(b) == SubSeq(b, 1, 4) = <<40, 0, 0, 0>>

\* C4: decoding b fails if b is shorter than 5*4 + 2*8 + 1 = 37 bytes, or its
\* last byte is not 0, or its first 32-bit field is not the version tag; it
\* succeeds in every other case; and it never reads fixed-field bytes beyond
\* the end of b.
C4_DecodeRejects ==
    cpc = "decoded" =>
        /\ decoded.ok <=>
              ~(\/ Len(descriptor) < 5 * 4 + 2 * 8 + 1
                \/ descriptor[Len(descriptor)] # 0
                \/ ~HasVersionTag(descriptor))
        /\ decoded.fixedRead <= Len(descriptor)

C4_Witness ==
    /\ cpc = "decoded"
    /\ Len(descriptor) = 5 * 4 + 2 * 8
    /\ descriptor[Len(descriptor)] = 0
    /\ HasVersionTag(descriptor)
    /\ ~decoded.ok
    /\ decoded.fixedRead = 0

(***************************************************************************)
(* Claims about the allocation engine (checked under SpecAlloc).           *)
(***************************************************************************)
\* C1: if allocate fails (NO_RESOURCES, BAD_VALUE or UNSUPPORTED) the callback
\* receives an empty buffer list, and when allocate returns every buffer the
\* call created has been freed and no fd the call opened is still open.
C1_FailureRollsBack ==
    (apc = "done" /\ aerror # "NONE") =>
        /\ Len(cb) = 1
        /\ cb[1].buffers = <<>>
        /\ handles = {}
        /\ openFds = {}

\* C2: a request whose reserved_size exceeds the cap fails with BAD_VALUE
\* before any heap allocation: the call opens no fd at all, and when it
\* returns it has failed with BAD_VALUE and no fd is open.
C2_CapCheckedBeforeAllocation ==
    (apc # "idle" /\ count > 0 /\ reserved_size > 8 * 1024 * 1024) =>
        /\ fdsOpened = 0
        /\ openFds = {}
        /\ apc = "done" => aerror = "BAD_VALUE"

(***************************************************************************)
(* Claims about the registry (checked under SpecReg).                      *)
(***************************************************************************)
\* a clone other than the one at address a is registered
OtherRegistered(a) == registry \ {a} # {}

\* C5 as stated: an import of a raw handle that is already imported (a clone
\* of it is registered and has not been freed) fails with NO_RESOURCES.
C5_SecondImportFails ==
    \A t \in Threads :
        (th[t].pc = "ret" /\ th[t].op = "import" /\ OtherRegistered(th[t].a)) =>
            th[t].res = "NO_RESOURCES"

\* C5 amended: an import of a raw handle that is already imported goes the way
\* of a first import: it succeeds and registers its own clone exactly when its
\* reference could be retained, and otherwise fails with NO_RESOURCES, leaving
\* no entry and no retained reference.
C5_SecondImportLikeFirst ==
    \A t \in Threads :
        (th[t].pc = "ret" /\ th[t].op = "import" /\ OtherRegistered(th[t].a)) =>
            /\ th[t].res = "NONE" <=> th[t].retainOk
            /\ th[t].res = "NONE" => th[t].added
            /\ th[t].res # "NONE" =>
                  /\ th[t].res = "NO_RESOURCES"
                  /\ ~th[t].added
                  /\ th[t].retained = 0

C5_Witness ==
    \E t \in Threads :
        /\ th[t].pc = "ret"
        /\ th[t].op = "import"
        /\ th[t].res = "NONE"
        /\ th[t].a \in registry
        /\ OtherRegistered(th[t].a)
        /\ \A u \in Threads \ {t} : th[u].pc = "idle"

\* C6: freeBuffer on a reference that is not in the registry fails with
\* BAD_BUFFER and releases, closes and deletes nothing; so does the second of
\* two consecutive frees of one reference.
C6_FreeOfAbsentFails ==
    \A t \in Threads :
        (th[t].pc = "ret" /\ th[t].op = "free" /\ ~th[t].found) =>
            /\ th[t].res = "BAD_BUFFER"
            /\ th[t].tore = 0
            /\ ~th[t].removed

C6_Witness ==
    \E t \in Threads, u \in Threads :
        /\ t # u
        /\ th[u].pc = "ret" /\ th[u].op = "free" /\ th[u].res = "NONE" /\ th[u].tore = 3
        /\ th[t].pc = "ret" /\ th[t].op = "free" /\ th[t].a = th[u].a
        /\ ~th[t].found
        /\ th[t].res = "BAD_BUFFER"
        /\ mem[th[t].a].state = "free"

InTeardown(t) == th[t].pc \in {"free_unregister", "free_close", "free_delete"}

\* C7: a handle is torn down (reference released, fds closed, handle deleted)
\* at most once, only by the freeBuffer call that removed its registry entry,
\* and never while it is registered.
C7_TornDownOnce ==
    /\ ~badTeardown
    /\ \A a \in Addrs : mem[a].releases <= 1 /\ mem[a].closes <= 1
    /\ \A t \in Threads :
          InTeardown(t) =>
              /\ th[t].removed
              /\ th[t].a \notin registry
              /\ mem[th[t].a].state = "live"
              /\ \A u \in Threads \ {t} : InTeardown(u) => th[u].a # th[t].a

C7_Witness ==
    \E t \in Threads, u \in Threads :
        /\ t # u
        /\ th[t].pc = "ret" /\ th[t].op = "free" /\ th[t].res = "NONE" /\ th[t].tore = 3
        /\ th[u].pc = "free_close"

\* C8: every registry entry is the address of one live handle whose
\* reference is retained exactly once and has not been released; a handle is
\* registered only after its retain and released only after its removal.
C8_RegisteredIsRetained ==
    /\ \A a \in registry :
          /\ mem[a].state = "live"
          /\ refCount[a] = 1
          /\ mem[a].releases = 0
          /\ mem[a].closes = 0
    /\ \A a \in Addrs : refCount[a] <= 1

C8_Witness ==
    /\ registry = Addrs
    /\ \A a \in Addrs : refCount[a] = 1 /\ mem[a].state = "live"

\* C9: an importBuffer or freeBuffer that returns an error has left the
\* registry as it was: it removed no entry, added none, holds no retained
\* reference and tore nothing down.
C9_ErrorLeavesRegistryUnchanged ==
    \A t \in Threads :
        (/\ th[t].pc = "ret"
         /\ th[t].op \in {"import", "import_corrupt", "free"}
         /\ th[t].res # "NONE") =>
            /\ ~th[t].removed
            /\ ~th[t].added
            /\ th[t].retained = 0
            /\ th[t].tore = 0

\* C10: no operation that looked a reference up in the registry reads the
\* handle after a concurrent freeBuffer has deleted it.
C10_NoUseAfterFree ==
    /\ ~uaf
    /\ \A t \in Threads : th[t].pc = "get_read" => ~th[t].stale

\* C11: dumpBuffers never visits a handle whose import has not yet retained
\* its reference, nor one on which freeBuffer has started teardown, whatever
\* the interleaving with importBuffer and freeBuffer.
C11_DumpSeesCompleteEntries == ~badVisit

C11_Witness ==
    \E t \in Threads, u \in Threads, a \in Addrs :
        /\ t # u
        /\ th[t].pc = "ret" /\ th[t].op = "dump" /\ th[t].found
        /\ th[u].pc = "free_close" /\ th[u].a # a
        /\ a \in registry

(***************************************************************************)
(* Claims about the mapper operations (checked under SpecOps).             *)
(***************************************************************************)
\* the reference of the last operation was null, or its handle was at that
\* time deleted, not registered, not imported or of invalid signature
NotUsable(o) ==
    \/ o.arg = "null"
    \/ o.pre.mem # "live"
    \/ ~o.pre.registered
    \/ ~o.pre.imported
    \/ ~o.pre.valid

\* the last operation went on to lock, unlock, sync or read the buffer
Proceeded(o) == o.lockReached \/ o.unlockReached \/ o.synced \/ o.regionRead

\* C12: lock, unlock, flushLockedBuffer, rereadLockedBuffer and
\* getReservedRegion on a reference that is not registered/imported or whose
\* signature is invalid return BAD_BUFFER and do not proceed to the buffer
\* (stated for calls whose other arguments are in order: no fence given).
C12_UnusableIsBadBuffer ==
    (/\ out.op \in {"lock", "unlock", "flushLockedBuffer", "rereadLockedBuffer",
                    "getReservedRegion"}
     /\ out.fence = "none"
     /\ NotUsable(out)) =>
        /\ out.err = "BAD_BUFFER"
        /\ ~Proceeded(out)

\* C13: get and set on a reference that is not registered fail with
\* BAD_BUFFER whatever the metadata type and never reach the metadata handler.
C13_MetadataNeedsRegistration ==
    (out.op \in {"get", "set"} /\ (out.arg = "null" \/ ~out.pre.registered)) =>
        /\ out.err = "BAD_BUFFER"
        /\ ~out.handler

C13_Witness ==
    /\ out.op = "set"
    /\ out.type = "DATASPACE"
    /\ out.arg = "h"
    /\ out.pre.mem = "live" /\ out.pre.valid /\ ~out.pre.registered
    /\ out.err = "BAD_BUFFER"

\* C14: dumpBuffer returns the whole table of 21 standard attributes in its
\* order or an empty dump; when the get of any attribute fails the dump is
\* empty.
C14_DumpAllOrNothing ==
    out.op = "dumpBuffer" =>
        /\ out.dump \in {<<>>, standardMetadataTypes}
        /\ Len(out.dump) \in {0, 21}
        /\ out.failing # {} => out.dump = <<>>
        /\ (out.handler /\ out.failing = {}) => out.dump = standardMetadataTypes

C14_Witness ==
    /\ out.op = "dumpBuffer"
    /\ out.handler
    /\ out.failing = {"PLANE_LAYOUTS"}
    /\ out.dump = <<>>

\* C19: a lock that is given a fence and reaches the underlying buffer lock
\* has waited on the fence before and has released it.
C19_FenceWaitedBeforeLock ==
    (out.op = "lock" /\ out.fence = "one" /\ out.lockReached) =>
        /\ out.waited
        /\ out.fenceClosed

\* C31: a lock that duplicated the caller's fence has closed the duplicate
\* exactly once when it returns, whatever the path and the result; it closes
\* nothing else, and nothing at all when no fence was given or duplicated.
C31_FenceDupClosedOnce ==
    out.op = "lock" =>
        /\ out.dupd => (out.fence = "one" /\ out.fenceCloses = <<"dup">>)
        /\ ~out.dupd => out.fenceCloses = <<>>
        /\ (out.fence = "one" /\ out.arg = "h" /\ out.pre.mem = "live"
              /\ out.pre.valid /\ out.err # "NO_RESOURCES") => out.dupd

\* the fence is closed on the path of a buffer already locked for writing
C31_Witness ==
    /\ out.op = "lock"
    /\ out.fence = "one"
    /\ out.pre.cpu_write /\ "write" \in out.usage
    /\ out.lockReached
    /\ out.err = "UNSUPPORTED"
    /\ out.fenceCloses = <<"dup">>

\* C32: a lock for CPU write on an imported buffer that is already locked
\* for writing goes on to the underlying buffer lock without waiting and
\* returns that lock's result (unless the fence could not be duplicated).
C32_RelockForWriteProceeds ==
    (/\ out.op = "lock"
     /\ out.arg = "h"
     /\ out.pre.mem = "live" /\ out.pre.valid /\ out.pre.imported
     /\ out.pre.cpu_write /\ "write" \in out.usage
     /\ out.fence # "many"
     /\ out.err # "NO_RESOURCES") =>
        /\ out.lockReached
        /\ ~out.waited
        /\ out.err = out.lockResult

C32_Witness ==
    /\ out.op = "lock"
    /\ out.arg = "h"
    /\ out.pre.mem = "live" /\ out.pre.valid /\ out.pre.imported
    /\ out.pre.cpu_write /\ out.usage = {"write"}
    /\ out.fence = "none"
    /\ out.lockReached
    /\ out.lockResult = "NONE"
    /\ out.err = "NONE"
    /\ buf.cpu_write

\* the mapper operations that report their result through a callback
CallbackOps == {"lock", "unlock", "flushLockedBuffer", "get", "dumpBuffer",
                "getReservedRegion", "isSupported"}

\* C33: every mapper operation that reports through a callback has invoked
\* it exactly once when it returns.
C33_CallbackExactlyOnce ==
    out.op \in CallbackOps => out.cbCalls = 1

\* C20: on an existing buffer flushLockedBuffer and rereadLockedBuffer
\* succeed only while cpu_read or cpu_write is set; with both clear they
\* return BAD_BUFFER and do no cache sync.
C20_CacheOpsNeedAccessFlag ==
    (out.op \in {"flushLockedBuffer", "rereadLockedBuffer"} /\ out.pre.mem = "live") =>
        /\ out.err = "NONE" => (out.pre.cpu_read \/ out.pre.cpu_write)
        /\ (~out.pre.cpu_read /\ ~out.pre.cpu_write) =>
              (out.err = "BAD_BUFFER" /\ ~out.synced)
        /\ out.synced => out.err = "NONE"

C20_Witness ==
    /\ out.op = "flushLockedBuffer"
    /\ out.arg = "h"
    /\ out.pre.mem = "live" /\ out.pre.valid /\ out.pre.registered
    /\ ~out.pre.cpu_read /\ ~out.pre.cpu_write
    /\ out.err = "BAD_BUFFER"
    /\ buf.registered

\* C21: after a successful unlock the handle has both access flags clear,
\* and they stay clear until the next successful lock: a flushLockedBuffer
\* or rereadLockedBuffer in between returns BAD_BUFFER and does no cache
\* sync.
C21_UnlockClearsAccess ==
    /\ (out.op = "unlock" /\ out.err = "NONE") =>
          (out.unlockReached /\ ~buf.cpu_read /\ ~buf.cpu_write)
    /\ (lastAccess = "unlocked" /\ buf.mem = "live") =>
          (~buf.cpu_read /\ ~buf.cpu_write)
    /\ (/\ lastAccess = "unlocked"
        /\ out.op \in {"flushLockedBuffer", "rereadLockedBuffer"}
        /\ out.pre.mem = "live") =>
          (out.err = "BAD_BUFFER" /\ ~out.synced)

C21_Witness ==
    /\ lastAccess = "unlocked"
    /\ out.op = "rereadLockedBuffer"
    /\ out.arg = "h"
    /\ out.pre.mem = "live" /\ out.pre.valid /\ out.pre.registered
    /\ out.err = "BAD_BUFFER"

(***************************************************************************)
(* Claims about heap selection (checked under SpecHeap).                   *)
(***************************************************************************)
Reorderings == Permutations(1..Len(faceauth_heaps))

Reordered(p) == [i \in 1..Len(faceauth_heaps) |-> faceauth_heaps[p[i]]]

FaceauthMasks == {faceauth_heaps[i].mask : i \in 1..Len(faceauth_heaps)}

ExactSpecifiers == {faceauth_heaps[i].usage_bits : i \in 1..Len(faceauth_heaps)}

\* C15: once the heap mask is selected: usage exactly
\* PROTECTED|HW_CAMERA_WRITE|TPU_INPUT gives the faceauth image heap; the
\* lookup gives the same mask under every reordering of the exact-match
\* table; the five specifiers are pairwise distinct; a faceauth heap is
\* selected exactly when usage equals one of them; usage 0 gives the system
\* heap.
C15_HeapSelection ==
    heapSel.pc \in {"mask", "name", "done"} =>
        /\ heapSel.usage = {"PROTECTED", "HW_CAMERA_WRITE", "TPU_INPUT"}
               => heapSel.heap_mask = "EXYNOS_ION_HEAP_FA_IMG_MASK"
        /\ \A p \in Reorderings :
               LET looked == FaceauthLookup(heapSel.usage, Reordered(p), 1)
               IN  IF looked = "0" THEN heapSel.heap_mask \notin FaceauthMasks
                   ELSE heapSel.heap_mask = looked
        /\ Cardinality(ExactSpecifiers) = Len(faceauth_heaps)
        /\ heapSel.heap_mask \in FaceauthMasks <=> heapSel.usage \in ExactSpecifiers
        /\ heapSel.usage = {} => heapSel.heap_mask = "EXYNOS_ION_HEAP_SYSTEM_MASK"

C15_Witness ==
    /\ heapSel.pc = "done"
    /\ heapSel.usage = {"PROTECTED", "HW_CAMERA_WRITE", "TPU_INPUT"}
    /\ heapSel.heap_mask = "EXYNOS_ION_HEAP_FA_IMG_MASK"
    /\ heapSel.name = "faimg-secure"

\* C25 (as stated): a request of zero size with an empty usage reaches heap
\* selection and selects the default system heap, and is not rejected before
\* a heap is selected.
C25_ZeroSizeReachesSelection ==
    (/\ ionReq.size = 0
     /\ heapSel.usage = {}
     /\ heapSel.pc \in {"rejected", "done"}) =>
        /\ heapSel.pc = "done"
        /\ heapSel.heap_mask = "EXYNOS_ION_HEAP_SYSTEM_MASK"

\* C25 (amended): a request of zero size is rejected with -1 before any heap
\* is selected, whatever its usage; a request of nonzero size with an empty
\* usage selects the default system heap and is allocated from it.
C25_ZeroSizeRejectedEmptyUsageDefault ==
    /\ (ionReq.size = 0 /\ heapSel.pc \notin {"idle", "call", "enter"}) =>
          /\ heapSel.pc = "rejected"
          /\ ionReq.shared_fd = "-1"
          /\ heapSel.heap_mask = "none"
          /\ heapSel.name = "none"
          /\ heapSel.via = "none"
    /\ (ionReq.size # 0 /\ heapSel.usage = {} /\ heapSel.pc = "done") =>
          /\ heapSel.heap_mask = "EXYNOS_ION_HEAP_SYSTEM_MASK"
          /\ heapSel.via = "exynos_ion_alloc"

C25_Witness ==
    /\ heapSel.pc = "rejected"
    /\ ionReq.size = 0
    /\ heapSel.usage = {}
    /\ ionReq.shared_fd = "-1"

\* C26: once the flags of a request are set: a usage with SENSOR_DIRECT_DATA
\* is requested uncached; a usage without it that selects the default system
\* heap is requested cached exactly when its CPU-read field equals read
\* often.
C26_CachedIffReadOften ==
    /\ (heapSel.pc \notin {"idle", "call"} /\ "SENSOR_DIRECT_DATA" \in heapSel.usage)
          => "ION_FLAG_CACHED" \notin ionReq.ion_flags
    /\ (/\ heapSel.pc \in {"mask", "name", "done"}
        /\ heapSel.heap_mask = "EXYNOS_ION_HEAP_SYSTEM_MASK"
        /\ "SENSOR_DIRECT_DATA" \notin heapSel.usage) =>
          ("ION_FLAG_CACHED" \in ionReq.ion_flags
              <=> /\ "SW_READ_1" \in heapSel.usage
                  /\ "SW_READ_2" \in heapSel.usage
                  /\ "SW_READ_4" \notin heapSel.usage
                  /\ "SW_READ_8" \notin heapSel.usage)

C26_Witness ==
    /\ heapSel.pc = "done"
    /\ heapSel.heap_mask = "EXYNOS_ION_HEAP_SYSTEM_MASK"
    /\ heapSel.usage = SW_READ_OFTEN
    /\ ionReq.ion_flags = {"ION_FLAG_CACHED"}
    /\ heapSel.via = "exynos_ion_alloc"

\* C27: for a usage that equals none of the exact-match specifiers the heap
\* selected is: with PROTECTED, the system heap if PRIVATE_NONSECURE is set,
\* else the video-scaler heap if HW_COMPOSER is set and neither HW_TEXTURE
\* nor HW_RENDER is, else the secure video-frame heap; without PROTECTED, the
\* sensor-direct heap if SENSOR_DIRECT_DATA is set, else the system heap.
\* Some heap is always selected and the allocation is requested from it.
C27_InexactSelectionTable ==
    (heapSel.pc \in {"mask", "name", "done"} /\ heapSel.usage \notin ExactSpecifiers) =>
        LET u == heapSel.usage
            m == heapSel.heap_mask
        IN  /\ ("PROTECTED" \in u /\ "PRIVATE_NONSECURE" \in u)
                  => m = "EXYNOS_ION_HEAP_SYSTEM_MASK"
            /\ ("PROTECTED" \in u /\ "PRIVATE_NONSECURE" \notin u
                  /\ "HW_COMPOSER" \in u /\ "HW_TEXTURE" \notin u /\ "HW_RENDER" \notin u)
                  => m = "EXYNOS_ION_HEAP_VIDEO_SCALER_MASK"
            /\ ("PROTECTED" \in u /\ "PRIVATE_NONSECURE" \notin u
                  /\ ~("HW_COMPOSER" \in u /\ "HW_TEXTURE" \notin u /\ "HW_RENDER" \notin u))
                  => m = "EXYNOS_ION_HEAP_VIDEO_FRAME_MASK"
            /\ ("PROTECTED" \notin u /\ "SENSOR_DIRECT_DATA" \in u)
                  => m = "EXYNOS_ION_HEAP_SENSOR_DIRECT_MASK"
            /\ ("PROTECTED" \notin u /\ "SENSOR_DIRECT_DATA" \notin u)
                  => m = "EXYNOS_ION_HEAP_SYSTEM_MASK"
            /\ m \in {"EXYNOS_ION_HEAP_SYSTEM_MASK", "EXYNOS_ION_HEAP_VIDEO_SCALER_MASK",
                      "EXYNOS_ION_HEAP_VIDEO_FRAME_MASK",
                      "EXYNOS_ION_HEAP_SENSOR_DIRECT_MASK"}
            /\ heapSel.pc = "done" =>
                  heapSel.via \in {"alloc_from_dmabuf_heap", "exynos_ion_alloc"}

C27_Witness ==
    /\ heapSel.pc = "done"
    /\ heapSel.usage = {"PROTECTED", "HW_COMPOSER", "OTHER"}
    /\ heapSel.heap_mask = "EXYNOS_ION_HEAP_VIDEO_SCALER_MASK"
    /\ heapSel.via = "exynos_ion_alloc"

TimesFreed(h) == Cardinality({k \in 1..Len(freeCalls) : freeCalls[k] = h})

\* C18: every allocate call invokes its callback exactly once, with exactly
\* count buffers on success and none on error; no buffer passed to the
\* callback was freed before or during it, and once the call is over each
\* of them has been freed exactly once.
C18_CallbackOnceThenRelease ==
    /\ Len(cb) <= 1
    /\ apc \in {"release", "done", "crashed"} => Len(cb) = 1
    /\ Len(cb) = 1 =>
          /\ cb[1].error = "NONE" => Len(cb[1].buffers) = count
          /\ cb[1].error # "NONE" => cb[1].buffers = <<>>
          /\ \A i \in 1..Len(cb[1].buffers) : cb[1].buffers[i] \in cb[1].live
    /\ apc = "done" =>
          \A i \in 1..Len(cb[1].buffers) : TimesFreed(cb[1].buffers[i]) = 1

(***************************************************************************)
(* Further claims about the descriptor path (checked under SpecCodec).     *)
(***************************************************************************)
\* a decoded descriptor one of whose width, height, layer_count, format is 0
ZeroField(d) ==
    \/ d.width = Zero32
    \/ d.height = Zero32
    \/ d.layer_count = Zero32
    \/ d.hal_format = Zero64

\* C36: a descriptor that does not decode gets BAD_DESCRIPTOR and the engine
\* is not invoked; when the engine reports an error the caller's result is
\* as it was and the status is not OK; when it reports success the status
\* is OK and the result holds the reported stride and a duplicate of each of
\* the count buffers.
C36_AidlAllocateReply ==
    cpc = "replied" =>
        /\ ~decoded.ok =>
               /\ allocReply.status = "BAD_DESCRIPTOR"
               /\ ~allocReply.engineCalled
               /\ allocReply.result = CallerResult
        /\ (allocReply.report.called /\ allocReply.report.error # "NONE") =>
               /\ allocReply.result = CallerResult
               /\ allocReply.status # "OK"
        /\ (allocReply.report.called /\ allocReply.report.error = "NONE") =>
               /\ allocReply.status = "OK"
               /\ allocReply.result.stride = allocReply.report.stride
               /\ Len(allocReply.result.buffers) = allocReply.count
               /\ \A i \in 1..allocReply.count :
                      allocReply.result.buffers[i] = <<"dup", i>>

\* the engine reported BAD_VALUE, which has no service error of its own
C36_Witness ==
    /\ cpc = "replied"
    /\ decoded.ok
    /\ allocReply.report.called
    /\ allocReply.report.error = "BAD_VALUE"
    /\ allocReply.status = "STATUS_UNKNOWN_ERROR"
    /\ allocReply.result = CallerResult

\* the request a decoded descriptor stands for: the 32-bit format is the low
\* half of hal_format and the single usage is producer_usage
RequestOf(desc) ==
    [width |-> desc.width, height |-> desc.height,
     layerCount |-> desc.layer_count,
     format |-> <<desc.hal_format[1], desc.hal_format[2]>>,
     usage |-> desc.producer_usage, reservedSize |-> desc.reserved_size,
     name |-> desc.name]

\* C37: for every byte sequence the decoder accepts, encoding the decoded
\* request gives back the same bytes.
C37_WireFormatCanonical ==
    (cpc = "decoded" /\ decoded.ok) =>
        grallocEncodeBufferDescriptor(RequestOf(decoded.desc)) = descriptor

\* C38: the descriptor built directly from a request equals the one obtained
\* by encoding the request and decoding the bytes, in every field, for every
\* 32-bit format value.
C38_DescriptorPathsAgree ==
    (cpc = "decoded" /\ ~tampered /\ createErr = "NONE") =>
        /\ decoded.ok
        /\ decoded.desc = decodeBufferDescriptorInfo(info)

\* C17: allocate of at least one buffer on a descriptor whose width, height,
\* layer_count or format is zero fails with a descriptor error and makes no
\* heap backend call.
C17_ZeroFieldFailsBeforeBackend ==
    (/\ cpc = "replied"
     /\ allocReply.count >= 1
     /\ decoded.ok
     /\ ZeroField(decoded.desc)) =>
        /\ allocReply.status = "BAD_DESCRIPTOR"
        /\ ~allocReply.backendCalled

\* C28: allocate never writes through a mapping it did not obtain, and every
\* buffer its callback receives owns an attribute region (the fd after its
\* planes) that was allocated before the callback.
C28_AttributeRegionOrError ==
    /\ apc # "crashed"
    /\ (apc = "release" /\ releaseIdx = 1) =>
           \A i \in 1..Len(cb[Len(cb)].buffers) :
               <<cb[Len(cb)].buffers[i], fd_count>> \in openFds

(***************************************************************************)
(* Claims about mali_gralloc_ion_allocate (SpecIonAlloc) and               *)
(* mali_gralloc_ion_map (SpecIonMap).                                      *)
(***************************************************************************)
\* the fds a sequence of close() calls names
FdsIn(log) == {log[k] : k \in 1..Len(log)}

C35_SecureNeverMapped ==
    ionMap.pc = "done" =>
        IF /\ ionMap.usage \cap {"PROTECTED", "NOZEROED"} # {}
           /\ "PRIVATE_NONSECURE" \notin ionMap.usage
        THEN /\ ionMap.ret = 0
             /\ ionMap.mmaps = 0
             /\ \A k \in 1..ionMap.fd_count : ionMap.bases[k] = 0
        ELSE ionMap.ret = 0 =>
                /\ ionMap.mmaps = ionMap.fd_count
                /\ \A k \in 1..ionMap.fd_count : ionMap.bases[k] # 0

C35_Witness ==
    /\ ionMap.pc = "done"
    /\ ionMap.usage = {"NOZEROED"}
    /\ ionMap.fd_count = 2
    /\ ionMap.ret = 0
    /\ ionMap.mmaps = 0
    /\ ionMap.bases = <<0, 0>>

\* C30: the call returns, and when mmap failed for plane k it returns a
\* negative errno with planes 0..k-1 unmapped once each and every base 0.
C30_MapFailureUnmapsAll ==
    /\ ionMap.pc # "hang"
    /\ (ionMap.pc = "done" /\ ionMap.failed >= 0) =>
           /\ ionMap.ret < 0
           /\ ionMap.unmapped = [k \in 1..ionMap.failed |-> k - 1]
           /\ \A k \in 1..ionMap.fd_count : ionMap.bases[k] = 0

(***************************************************************************)
(* Claims about the diagnostics ring (checked under SpecDiag, the          *)
(* progress of dump() under SpecDiagFair).                                 *)
(***************************************************************************)
\* the details every completed allocation has written
Appended == {<<t, k>> : t \in Appenders, k \in 1..MaxAppends}

\* C22: a dump called after N allocations have completed, with none begun
\* since, and that obtained the lock shows exactly N entries, one for each
\* of the N allocations.
C22_DumpShowsEveryAllocation ==
    (/\ dumper.pc = "ret"
     /\ dumper.acquired
     /\ dumper.quiet
     /\ dumper.started = ring.next_idx) =>
        /\ Len(dumper.result) = dumper.started
        /\ \A i, j \in 1..Len(dumper.result) :
               dumper.result[i] = dumper.result[j] => i = j
        /\ \A i \in 1..Len(dumper.result) : dumper.result[i] \in Appended

\* C34: the k-th append (k counted from 0 in the order of the fetch_add
\* calls) uses slot k mod 2048 of the ring, also when the 16-bit counter has
\* wrapped in between, and that is the slot it writes.
C34_SlotIsOrdinalModCapacity ==
    \A t \in Appenders :
        /\ appender[t].pc \in {"lock_shared", "blocked", "write", "unlock_shared"} =>
               appender[t].idx = appender[t].k % RingCapacity
        /\ appender[t].pc = "unlock_shared" =>
               ring.allocated_buffers[appender[t].k % RingCapacity] =
                   <<t, appender[t].done + 1>>

\* the append after the counter wrapped from 65535 to 0 has written slot 0
C34_Witness ==
    \E t \in Appenders :
        /\ appender[t].pc = "unlock_shared"
        /\ appender[t].k = 65536
        /\ ring.next_idx = 1
        /\ appender[t].idx = 0
        /\ ring.allocated_buffers[0] = <<t, 1>>

\* C23: no allocating thread ever waits for the diagnostics lock.
C23_AppendNeverWaits ==
    \A t \in Appenders : appender[t].pc # "blocked"

\* what dump() keeps true of the lock and of its result
DumpLockDiscipline ==
    /\ ringMutex.exclusive => dumper.pc \in {"format", "unlock"}
    /\ dumper.pc = "ret" => ~ringMutex.exclusive
    /\ (dumper.pc = "ret" /\ ~dumper.acquired) => dumper.result = <<>>
    /\ dumper.pc \in {"format", "unlock"} => (dumper.acquired /\ ringMutex.shared = {})

\* C24: a dump that has begun to try for the lock returns, whatever the
\* allocating threads do; it holds the lock exclusively only between
\* obtaining it and its unlock, has released it when it returns, and returns
\* the empty string when it did not obtain it.
C24_DumpReturns ==
    /\ []DumpLockDiscipline
    /\ (dumper.pc = "try_lock_for") ~> (dumper.pc = "ret")

C24_Witness ==
    /\ dumper.pc = "ret"
    /\ ~dumper.acquired
    /\ dumper.result = <<>>
    /\ ringMutex.shared # {}

====
